---- MODULE Spec2Model ----
(***************************************************************************)
(* FENATS member registry: RUT normalisation / formatting, the spreadsheet *)
(* table locator and row extractor, and the import reconciler.             *)
(*                                                                         *)
(* A JavaScript string is modelled as a sequence of one-character strings: *)
(* "9-K" is <<"9", "-", "K">> and the empty string is << >>.               *)
(***************************************************************************)
EXTENDS Integers, Sequences, FiniteSets, TLC

VARIABLES
    rutPc,      \* position of the RUT utility run: "input", "normalized", ...
    rutIn,      \* raw string handed to normalizeRut / formatRut
    rutOut,     \* normalizeRut(rutIn)
    rutAgain,   \* normalizeRut applied to rutOut
    rutMasked,  \* formatRut(rutIn)
    rutPrev,    \* [raw, out] of the input before its check digit was retyped
    sheetPc,    \* position of the parser run: "sheet", "located", "parsed"
    sheet,      \* the grid read from the first worksheet: rows of cells
    sheetHeader,  \* headerRow and the column indices found by the header search
    sheetEmitted, \* 0-based grid indices of the rows pushed to `out`, in order
    sheetRows,  \* the FenatsRow list parseFenatsExcel returns
    role,       \* req.session.user.role of the operator, "NONE" without session
    members,    \* the Member table: a set of records
    nextId,     \* next value of the SERIAL column Member.id
    nextToken,  \* next value newToken() returns (tokens are fresh, never reused)
    clock,      \* the value `new Date()` returns next
    pc,         \* per request: position in the POST /admin/upload handler
    file,       \* per request: the grid of the uploaded file
    form,       \* per request: [affiliate, importSource] of the form
    parsed,     \* per request: parseFenatsExcel(req.file.buffer)
    idx,        \* per request: 1-based position of the row loop in parsed
    exists,     \* per request: whether findUnique returned a member
    created,    \* per request: counter
    updated,    \* per request: counter
    skipped,    \* per request: counter
    response,   \* per request: what the handler sent back
    runs,       \* per request slot: uploads started so far
    rowLog,     \* per request: outcome of each processed row, in order
    lookups,    \* per request: findUnique calls of the current run
    writes,     \* per request: create / update calls of the current run
    startMembers, \* per request: the Member table when the current run began
    prevRun,    \* per request: file, response and starting table of the previous run
    adminUsers, \* the AdminUser table: a set of records
    sessionUser,  \* req.session.user.id of the operator, 0 without session
    loginSteps, \* the steps of the login flow the session went through
    ops,        \* panel requests served so far
    panel       \* the last panel request and what it was answered

rutVars == <<rutPc, rutIn, rutOut, rutAgain, rutMasked, rutPrev>>

sheetVars == <<sheetPc, sheet, sheetHeader, sheetEmitted, sheetRows>>

storeVars == <<members, nextId, nextToken, clock>>

reqVars == <<pc, file, form, parsed, idx, exists, created, updated, skipped,
             response, runs>>

logVars == <<rowLog, lookups, writes, startMembers, prevRun>>

panelVars == <<adminUsers, sessionUser, loginSteps, ops, panel>>

importVars == <<role, storeVars, reqVars, logVars, panelVars>>

vars == <<rutVars, sheetVars, importVars>>

-----------------------------------------------------------------------------
(* Characters and strings *)

Digits == {"0", "1", "2", "3", "4", "5", "6", "7", "8", "9"}

LowerCase == <<"a", "b", "c", "d", "e", "f", "g", "h", "i", "j", "k", "l", "m",
               "n", "o", "p", "q", "r", "s", "t", "u", "v", "w", "x", "y", "z">>

UpperCase == <<"A", "B", "C", "D", "E", "F", "G", "H", "I", "J", "K", "L", "M",
               "N", "O", "P", "Q", "R", "S", "T", "U", "V", "W", "X", "Y", "Z">>

WhiteSpace == {" "}

\* the value of a blank cell / missing argument (null or undefined)
Null == <<"<null>">>

\* String(v ?? "")
Str(v) == IF v = Null THEN << >> ELSE v

UpperChar(c) ==
    IF \E i \in DOMAIN LowerCase : LowerCase[i] = c
    THEN UpperCase[CHOOSE i \in DOMAIN LowerCase : LowerCase[i] = c]
    ELSE c

\* String.prototype.toUpperCase
ToUpperCase(s) == [i \in DOMAIN s |-> UpperChar(s[i])]

\* String.prototype.trim
Trim(s) ==
    LET keep == {i \in DOMAIN s : s[i] \notin WhiteSpace}
    IN  IF keep = {} THEN << >>
        ELSE LET lo == CHOOSE i \in keep : \A j \in keep : i <= j
                 hi == CHOOSE i \in keep : \A j \in keep : j <= i
             IN  SubSeq(s, lo, hi)

\* s.replace(/[^...]/g, ""): keep the characters of s that are in `allowed`
KeepOnly(s, allowed) ==
    LET Keep(c) == c \in allowed IN SelectSeq(s, Keep)

\* s.replace(/^0+/, "")
StripLeadingZeros(s) ==
    LET nz == {i \in DOMAIN s : s[i] # "0"}
    IN  IF nz = {} THEN << >>
        ELSE SubSeq(s, CHOOSE i \in nz : \A j \in nz : i <= j, Len(s))

\* s.split(sep) for a one-character separator
RECURSIVE SplitAt(_, _, _)
SplitAt(s, sep, cur) ==
    IF s = << >> THEN <<cur>>
    ELSE IF Head(s) = sep THEN <<cur>> \o SplitAt(Tail(s), sep, << >>)
         ELSE SplitAt(Tail(s), sep, Append(cur, Head(s)))

Split(s, sep) == SplitAt(s, sep, << >>)

-----------------------------------------------------------------------------
(* RUT utilities (admin.routes.ts) *)

RutChars == Digits \cup {"K"}

\* normalizeRut without the `|| "0"` fallback for an all-zero number part
normalizeRutNoZeroFallback(raw) ==
    LET s       == ToUpperCase(Trim(Str(raw)))
        compact == KeepOnly(s, RutChars)
    IN  IF Len(compact) < 2 THEN << >>
        ELSE LET dv  == SubSeq(compact, Len(compact), Len(compact))
                 num == StripLeadingZeros(SubSeq(compact, 1, Len(compact) - 1))
             IN  num \o <<"-">> \o dv

\* normalizeRut with the length test off by one (compact.length <= 2)
normalizeRutMinThree(raw) ==
    LET s       == ToUpperCase(Trim(Str(raw)))
        compact == KeepOnly(s, RutChars)
    IN  IF Len(compact) <= 2 THEN << >>
        ELSE LET dv       == SubSeq(compact, Len(compact), Len(compact))
                 stripped == StripLeadingZeros(SubSeq(compact, 1, Len(compact) - 1))
                 num      == IF stripped = << >> THEN <<"0">> ELSE stripped
             IN  num \o <<"-">> \o dv

normalizeRut(raw) ==
    LET s       == ToUpperCase(Trim(Str(raw)))
        compact == KeepOnly(s, RutChars)
    IN  IF Len(compact) < 2 THEN << >>
        ELSE LET dv       == SubSeq(compact, Len(compact), Len(compact))
                 stripped == StripLeadingZeros(SubSeq(compact, 1, Len(compact) - 1))
                 num      == IF stripped = << >> THEN <<"0">> ELSE stripped
             IN  num \o <<"-">> \o dv

\* /\w/ on the characters the model uses
IsWordChar(c) ==
    \/ c \in Digits \/ c = "_"
    \/ \E i \in DOMAIN LowerCase : LowerCase[i] = c \/ UpperCase[i] = c

\* the pattern without the `+`: /\B(?=\d{3}(?!\d))/
GroupGapMatchesOnce(s, p) ==
    /\ p \in 0..Len(s)
    /\ LET before == p >= 1 /\ IsWordChar(s[p])
           after  == p < Len(s) /\ IsWordChar(s[p + 1])
       IN  before = after
    /\ p + 3 <= Len(s)
    /\ \A j \in (p + 1)..(p + 3) : s[j] \in Digits
    /\ (p + 3 < Len(s) => s[p + 4] \notin Digits)

\* /\B(?=(\d{3})+(?!\d))/ matches at the gap after the first p characters of s
GroupGapMatches(s, p) ==
    /\ p \in 0..Len(s)
    /\ LET before == p >= 1 /\ IsWordChar(s[p])
           after  == p < Len(s) /\ IsWordChar(s[p + 1])
       IN  before = after
    /\ \E m \in 1..(Len(s) \div 3) :
          /\ p + 3 * m <= Len(s)
          /\ \A j \in (p + 1)..(p + 3 * m) : s[j] \in Digits
          /\ (p + 3 * m < Len(s) => s[p + 3 * m + 1] \notin Digits)

\* num.replace(/\B(?=(\d{3})+(?!\d))/g, ".")
RECURSIVE DotsFrom(_, _)
DotsFrom(s, p) ==
    IF p > Len(s) THEN << >>
    ELSE (IF GroupGapMatches(s, p) THEN <<".">> ELSE << >>)
         \o (IF p < Len(s) THEN <<s[p + 1]>> ELSE << >>)
         \o DotsFrom(s, p + 1)

WithDots(s) == DotsFrom(s, 0)

formatRut(rutNormalized) ==
    LET clean == normalizeRut(rutNormalized)
        parts == Split(clean, "-")
        num   == parts[1]
        dv    == IF Len(parts) >= 2 THEN parts[2] ELSE << >>
    IN  IF num = << >> \/ dv = << >> THEN rutNormalized
        ELSE WithDots(num) \o <<"-">> \o dv

-----------------------------------------------------------------------------
(* Spreadsheet parser (excel.parse.ts) *)

\* norm(v) = String(v ?? "").trim()
norm(v) == Trim(Str(v))

\* upper(v) = norm(v).toUpperCase()
upper(v) == ToUpperCase(norm(v))

\* row[c] for a 0-based column c: undefined outside the row (also for c = -1)
Cell(row, c) == IF c >= 0 /\ c < Len(row) THEN row[c + 1] ELSE Null

\* s.replace(/\s+/g, "")
RemoveWhiteSpace(s) ==
    LET Keep(c) == c \notin WhiteSpace IN SelectSeq(s, Keep)

\* isLikelyRutNumber with the lower length bound at 5
isLikelyRutNumberMinFive(s) ==
    /\ s # << >>
    /\ \A i \in DOMAIN s : s[i] \in Digits
    /\ Len(s) >= 5
    /\ Len(s) <= 9

isLikelyRutNumber(s) ==
    /\ s # << >>
    /\ \A i \in DOMAIN s : s[i] \in Digits
    /\ Len(s) >= 6
    /\ Len(s) <= 9

isLikelyDV(s) == Len(s) = 1 /\ s[1] \in RutChars

\* joinRutDv that upper-cases the check digit without reducing it to [0-9K]
joinRutDvKeepsDvText(rutPart, dvPart) ==
    LET r  == KeepOnly(norm(rutPart), Digits)
        dv == upper(dvPart)
    IN  IF r = << >> \/ dv = << >> THEN << >> ELSE r \o <<"-">> \o dv

joinRutDv(rutPart, dvPart) ==
    LET r  == KeepOnly(norm(rutPart), Digits)
        dv == KeepOnly(upper(dvPart), RutChars)
    IN  IF r = << >> \/ dv = << >> THEN << >> ELSE r \o <<"-">> \o dv

LabelRut    == <<"R", "U", "T">>
LabelDv     == <<"D", "V">>
LabelRutDv  == <<"R", "U", "T", " ", "D", "V">>
LabelNombre == <<"N", "O", "M", "B", "R", "E">>
LabelGenero == <<"G", "E", "N", "E", "R", "O">>

\* row.findIndex((c) => upper(c) === label): 0-based, -1 when absent
FindIndex(row, label) ==
    LET hits == {c \in 0..(Len(row) - 1) : upper(Cell(row, c)) = label}
    IN  IF hits = {} THEN -1 ELSE CHOOSE c \in hits : \A d \in hits : c <= d

NoHeader ==
    [headerRow |-> -1, rutCol |-> -1, dvCol |-> -1, rutDvCol |-> -1,
     nameCol |-> -1, genderCol |-> -1]

\* the header search without the `break`: a later matching row replaces the header
RECURSIVE HeaderSearchNoBreak(_, _)
HeaderSearchNoBreak(grid, r) ==
    IF r >= Len(grid) THEN NoHeader
    ELSE LET row      == grid[r + 1]
             idxRut   == FindIndex(row, LabelRut)
             idxDv    == FindIndex(row, LabelDv)
             idxRutDv == FindIndex(row, LabelRutDv)
             idxNom   == FindIndex(row, LabelNombre)
             idxGen   == FindIndex(row, LabelGenero)
             later    == HeaderSearchNoBreak(grid, r + 1)
         IN  IF later.headerRow # -1 THEN later
             ELSE IF idxRut # -1 /\ idxDv # -1 /\ idxNom # -1
             THEN [headerRow |-> r, rutCol |-> idxRut, dvCol |-> idxDv,
                   rutDvCol |-> -1, nameCol |-> idxNom, genderCol |-> idxGen]
             ELSE IF idxRutDv # -1 /\ idxNom # -1
             THEN [headerRow |-> r, rutCol |-> -1, dvCol |-> -1,
                   rutDvCol |-> idxRutDv, nameCol |-> idxNom, genderCol |-> idxGen]
             ELSE NoHeader

\* the header search from row r on (0-based): the first row that matches wins
RECURSIVE HeaderSearch(_, _)
HeaderSearch(grid, r) ==
    IF r >= Len(grid) THEN NoHeader
    ELSE LET row      == grid[r + 1]
             idxRut   == FindIndex(row, LabelRut)
             idxDv    == FindIndex(row, LabelDv)
             idxRutDv == FindIndex(row, LabelRutDv)
             idxNom   == FindIndex(row, LabelNombre)
             idxGen   == FindIndex(row, LabelGenero)
         IN  IF idxRut # -1 /\ idxDv # -1 /\ idxNom # -1
             THEN [headerRow |-> r, rutCol |-> idxRut, dvCol |-> idxDv,
                   rutDvCol |-> -1, nameCol |-> idxNom, genderCol |-> idxGen]
             ELSE IF idxRutDv # -1 /\ idxNom # -1
             THEN [headerRow |-> r, rutCol |-> -1, dvCol |-> -1,
                   rutDvCol |-> idxRutDv, nameCol |-> idxNom, genderCol |-> idxGen]
             ELSE HeaderSearch(grid, r + 1)

\* the header search falling back to the top row with the columns RUT, DV,
\* NOMBRE, GENERO in A..D when no row matches
LocateHeaderAssumeTopRow(grid) ==
    IF HeaderSearch(grid, 0).headerRow # -1 \/ grid = << >> THEN HeaderSearch(grid, 0)
    ELSE [headerRow |-> 0, rutCol |-> 0, dvCol |-> 1, rutDvCol |-> -1,
          nameCol |-> 2, genderCol |-> 3]

LocateHeader(grid) == HeaderSearch(grid, 0)

\* the name read without trim
RowFullNameUntrimmed(h, row) == Str(Cell(row, h.nameCol))

\* the fields read from one data row under the mapping h
RowFullName(h, row) == norm(Cell(row, h.nameCol))

RowGenderText(h, row) ==
    IF h.genderCol >= 0 /\ norm(Cell(row, h.genderCol)) # << >>
    THEN norm(Cell(row, h.genderCol))
    ELSE Null

RowRutRaw(h, row) ==
    LET rutPart == norm(Cell(row, h.rutCol))
        dvPart  == norm(Cell(row, h.dvCol))
        rutRaw  == IF h.rutDvCol >= 0 THEN norm(Cell(row, h.rutDvCol))
                   ELSE IF rutPart # << >> /\ dvPart # << >> THEN joinRutDv(rutPart, dvPart)
                   ELSE IF rutPart # << >> THEN rutPart
                   ELSE << >>
    IN  ToUpperCase(RemoveWhiteSpace(rutRaw))

\* hasAnyData
HasAnyData(h, row) ==
    \/ RowRutRaw(h, row) # << >>
    \/ RowFullName(h, row) # << >>
    \/ RowGenderText(h, row) # Null

\* the soft validation of separate RUT / DV columns: TRUE when the row is skipped
FailsShapeCheck(h, row) ==
    /\ h.rutDvCol < 0
    /\ LET rutPart == KeepOnly(norm(Cell(row, h.rutCol)), Digits)
           dvPart  == KeepOnly(upper(Cell(row, h.dvCol)), RutChars)
       IN  /\ rutPart # << >>
           /\ \/ ~isLikelyRutNumber(rutPart)
              \/ (dvPart # << >> /\ ~isLikelyDV(dvPart))

EmptyLimit == 25

\* the row loop stopping one row late (emptyStreak > 25)
RECURSIVE ScanRowsStopsLate(_, _, _, _)
ScanRowsStopsLate(grid, h, r, emptyStreak) ==
    IF r >= Len(grid) THEN << >>
    ELSE LET row == grid[r + 1]
         IN  IF ~HasAnyData(h, row)
             THEN IF emptyStreak + 1 > EmptyLimit THEN << >>
                  ELSE ScanRowsStopsLate(grid, h, r + 1, emptyStreak + 1)
             ELSE IF \/ FailsShapeCheck(h, row)
                     \/ RowFullName(h, row) = << >>
                     \/ RowRutRaw(h, row) = << >>
             THEN ScanRowsStopsLate(grid, h, r + 1, 0)
             ELSE <<r>> \o ScanRowsStopsLate(grid, h, r + 1, 0)

\* the row loop from row r on with the current emptyStreak: the 0-based
\* indices of the rows pushed to `out`
RECURSIVE ScanRows(_, _, _, _)
ScanRows(grid, h, r, emptyStreak) ==
    IF r >= Len(grid) THEN << >>
    ELSE LET row == grid[r + 1]
         IN  IF ~HasAnyData(h, row)
             THEN IF emptyStreak + 1 >= EmptyLimit THEN << >>
                  ELSE ScanRows(grid, h, r + 1, emptyStreak + 1)
             ELSE IF \/ FailsShapeCheck(h, row)
                     \/ RowFullName(h, row) = << >>
                     \/ RowRutRaw(h, row) = << >>
             THEN ScanRows(grid, h, r + 1, 0)
             ELSE <<r>> \o ScanRows(grid, h, r + 1, 0)

\* indices of the emitted rows for a whole grid
EmittedRows(grid) ==
    LET h == LocateHeader(grid)
    IN  IF h.headerRow = -1 THEN << >> ELSE ScanRows(grid, h, h.headerRow + 1, 0)

FenatsRow(h, row) ==
    [rutRaw |-> RowRutRaw(h, row), fullName |-> RowFullName(h, row),
     genderText |-> RowGenderText(h, row)]

parseFenatsExcel(grid) ==
    LET h   == LocateHeader(grid)
        at  == EmittedRows(grid)
    IN  [k \in 1..Len(at) |-> FenatsRow(h, grid[at[k] + 1])]

-----------------------------------------------------------------------------
(* Import reconciler: POST /admin/upload (admin.routes.ts) *)

\* the two requests the model follows
Reqs == {1, 2}

\* AdminRole, and "NONE" for a request without session
Roles == {"NONE", "VIEWER", "ADMIN", "SUPERADMIN"}

\* requireRole letting every logged-in session through
RequireRoleAnySession(r, allowed) ==
    IF r = "NONE" THEN "redirectLogin" ELSE "next"

\* requireRole([AdminRole.ADMIN, AdminRole.SUPERADMIN]): what the middleware does
RequireRole(r, allowed) ==
    IF r = "NONE" THEN "redirectLogin"
    ELSE IF r \notin allowed THEN "forbidden"
    ELSE "next"

\* s.includes(sub)
Includes(s, sub) ==
    \E i \in 0..(Len(s) - Len(sub)) : SubSeq(s, i + 1, i + Len(sub)) = sub

genderMap(g) ==
    LET x == ToUpperCase(Str(g))
    IN  IF Includes(x, <<"F", "E", "M">>) THEN "FEMALE"
        ELSE IF Includes(x, <<"M", "A", "S">>) THEN "MALE"
        ELSE "null"

\* prisma.member.findUnique({ where: { rut } }) !== null, with a lookup by
\* the display form instead of the key
MemberExistsByMasked(rut) == \E m \in members : m.rutMasked = rut

\* prisma.member.findUnique({ where: { rut } }) !== null
MemberExists(rut) == \E m \in members : m.rut = rut

\* the unique index Member_rut_key rejects a second row with this rut
ViolatesRutKey(rut) == \E m \in members : m.rut = rut

\* the row prisma.member.findUnique({ where: { rut } }) returns
MemberByRut(rut) == CHOOSE m \in members : m.rut = rut

\* the create that stores the raw ID text of the row as display ID
CreatedMemberShowsRaw(rut, row, f) ==
    [id           |-> nextId,
     rut          |-> rut,
     rutMasked    |-> row.rutRaw,
     fullName     |-> row.fullName,
     affiliate    |-> f.affiliate,
     gender       |-> genderMap(row.genderText),
     status       |-> "ACTIVE",
     token        |-> nextToken,
     lastImportAt |-> clock,
     importSource |-> <<f.affiliate, f.importSource>>]

\* data of prisma.member.create in the upload handler
CreatedMember(rut, row, f) ==
    [id           |-> nextId,
     rut          |-> rut,
     rutMasked    |-> formatRut(rut),
     fullName     |-> row.fullName,
     affiliate    |-> f.affiliate,
     gender       |-> genderMap(row.genderText),
     status       |-> "ACTIVE",
     token        |-> nextToken,
     lastImportAt |-> clock,
     importSource |-> <<f.affiliate, f.importSource>>]

\* the update that also issues a new token
UpdatedMemberNewToken(m, rut, row, f) ==
    [m EXCEPT !.fullName     = row.fullName,
              !.rutMasked    = formatRut(rut),
              !.affiliate    = f.affiliate,
              !.gender       = genderMap(row.genderText),
              !.token        = nextToken,
              !.lastImportAt = clock,
              !.importSource = <<f.affiliate, f.importSource>>]

\* the update that keeps the name the member was created with
UpdatedMemberKeepsName(m, rut, row, f) ==
    [m EXCEPT !.rutMasked    = formatRut(rut),
              !.affiliate    = f.affiliate,
              !.gender       = genderMap(row.genderText),
              !.lastImportAt = clock,
              !.importSource = <<f.affiliate, f.importSource>>]

\* the update that also sets the member active again
UpdatedMemberReactivates(m, rut, row, f) ==
    [m EXCEPT !.fullName     = row.fullName,
              !.rutMasked    = formatRut(rut),
              !.affiliate    = f.affiliate,
              !.gender       = genderMap(row.genderText),
              !.status       = "ACTIVE",
              !.lastImportAt = clock,
              !.importSource = <<f.affiliate, f.importSource>>]

\* data of prisma.member.update in the upload handler, applied to row m
UpdatedMember(m, rut, row, f) ==
    [m EXCEPT !.fullName     = row.fullName,
              !.rutMasked    = formatRut(rut),
              !.affiliate    = f.affiliate,
              !.gender       = genderMap(row.genderText),
              !.lastImportAt = clock,
              !.importSource = <<f.affiliate, f.importSource>>]

\* the message shown when skipped is tested with >= instead of >
UploadMessageAlwaysSkipped(nSkipped) ==
    IF nSkipped >= 0 THEN <<"Importacion completada (se omitieron filas sin RUT valido)", nSkipped>>
    ELSE <<"Importacion completada.">>

\* message of the upload view
UploadMessage(nSkipped) ==
    IF nSkipped > 0 THEN <<"Importacion completada (se omitieron filas sin RUT valido)", nSkipped>>
    ELSE <<"Importacion completada.">>

\* the summary with totalRows counting only the rows written
UploadSummaryCountsWritten(rows, nCreated, nUpdated, nSkipped) ==
    [kind    |-> "summary",
     message |-> UploadMessage(nSkipped),
     stats   |-> [totalRows |-> nCreated + nUpdated, created |-> nCreated,
                  updated |-> nUpdated, skipped |-> nSkipped]]

\* res.render("admin/upload", { message, stats })
UploadSummary(rows, nCreated, nUpdated, nSkipped) ==
    [kind    |-> "summary",
     message |-> UploadMessage(nSkipped),
     stats   |-> [totalRows |-> Len(rows), created |-> nCreated,
                  updated |-> nUpdated, skipped |-> nSkipped]]

NoResponse == [kind |-> "none"]

NoRun == [file |-> << >>, response |-> NoResponse, startMembers |-> {}]

-----------------------------------------------------------------------------
(* Admin panel: login, admin users, manual entry, member actions, member login *)

\* what Express makes of a rejection that leaves an async handler without
\* try / catch: the error response of its error handler, or no reply at all
\* (the rejection stays unhandled); no handler code sends anything
UncaughtOutcomes == {"error500", "noReply"}

\* prisma.adminUser.findUnique({ where: { username } }) !== null
AdminExists(username) == \E u \in adminUsers : u.username = username

AdminByUsername(username) == CHOOSE u \in adminUsers : u.username = username

\* prisma.adminUser.findUnique({ where: { id } }) !== null
AdminIdExists(id) == \E u \in adminUsers : u.id = id

AdminById(id) == CHOOSE u \in adminUsers : u.id = id

\* bcrypt.compare(password, user.passwordHash): a row keeps the password
\* its hash was made from
PasswordMatches(password, user) == password = user.password

\* POST /admin/login: the status the handler answers with
LoginOutcome(username, password) ==
    IF username = << >> \/ password = << >> THEN "badRequest"
    ELSE IF ~AdminExists(username) THEN "unauthorized"
    ELSE IF ~AdminByUsername(username).isActive THEN "unauthorized"
    ELSE IF ~PasswordMatches(password, AdminByUsername(username)) THEN "unauthorized"
    ELSE "redirectAdmin"

\* role of POST /admin/users/new: anything but SUPERADMIN and ADMIN is VIEWER
NewUserRole(roleRaw) ==
    LET r == ToUpperCase(Trim(Str(roleRaw)))
    IN  IF r = <<"S","U","P","E","R","A","D","M","I","N">> THEN "SUPERADMIN"
        ELSE IF r = <<"A","D","M","I","N">> THEN "ADMIN"
        ELSE "VIEWER"

\* /^[a-zA-Z0-9._-]{3,32}$/.test(username)
UsernameChars ==
    Digits \cup {".", "_", "-"}
    \cup {LowerCase[i] : i \in DOMAIN LowerCase} \cup {UpperCase[i] : i \in DOMAIN UpperCase}

ValidUsername(username) ==
    /\ Len(username) >= 3
    /\ Len(username) <= 32
    /\ \A i \in DOMAIN username : username[i] \in UsernameChars

MinPassword == 6

\* the validations of POST /admin/users/new, in order, then the create;
\* emailRequired: the table has the NOT NULL e-mail column, which the create
\* does not fill
NewUserOutcome(username, password, password2, emailRequired) ==
    IF username = << >> \/ password = << >> THEN "missing"
    ELSE IF Len(password) < MinPassword THEN "shortPassword"
    ELSE IF password # password2 THEN "mismatch"
    ELSE IF ~ValidUsername(username) THEN "badUsername"
    ELSE IF AdminExists(username) \/ emailRequired THEN "createFailed"
    ELSE "created"

\* next value of the SERIAL column AdminUser.id
NextAdminId ==
    IF adminUsers = {} THEN 1
    ELSE 1 + (CHOOSE n \in {u.id : u \in adminUsers} :
                 \A k \in {u.id : u \in adminUsers} : k <= n)

\* data of prisma.adminUser.create in POST /admin/users/new
CreatedAdmin(username, password, roleRaw) ==
    [id |-> NextAdminId, username |-> username, password |-> password,
     role |-> NewUserRole(roleRaw), isActive |-> TRUE]

\* POST /admin/users/:id/toggle
ToggleUserOutcome(id) ==
    IF ~AdminIdExists(id) THEN "notFound"
    ELSE IF sessionUser = id THEN "selfToggle"
    ELSE "redirectUsers"

\* POST /admin/users/:id/reset-password; an update of a missing row rejects
ResetPasswordOutcome(id, password, uncaught) ==
    IF password = << >> \/ Len(password) < MinPassword THEN "badPassword"
    ELSE IF ~AdminIdExists(id) THEN uncaught
    ELSE "redirectUsers"

\* prisma.member.findUnique({ where: { id } }) !== null
MemberIdExists(id) == \E m \in members : m.id = id

MemberById(id) == CHOOSE m \in members : m.id = id

\* gender of POST /admin/new
ManualGender(genderRaw) ==
    IF genderRaw \in {<<"M","A","L","E">>, <<"F","E","M","A","L","E">>, <<"O","T","H","E","R">>}
    THEN IF genderRaw = <<"M","A","L","E">> THEN "MALE"
         ELSE IF genderRaw = <<"F","E","M","A","L","E">> THEN "FEMALE"
         ELSE "OTHER"
    ELSE "null"

\* status of POST /admin/new
ManualStatus(statusRaw) ==
    IF statusRaw = <<"I","N","A","C","T","I","V","E">> THEN "INACTIVE" ELSE "ACTIVE"

\* importSource of POST /admin/new: `Manual (${username ?? "Admin"})`
ManualSource ==
    IF AdminIdExists(sessionUser)
    THEN <<"Manual", AdminById(sessionUser).username>>
    ELSE <<"Manual", <<"A","d","m","i","n">> >>

\* the validations of POST /admin/new before the upsert
ManualEntryOutcome(fullName, rutInput) ==
    IF fullName = << >> THEN "missingName"
    ELSE IF normalizeRut(rutInput) = << >> THEN "invalidRut"
    ELSE "saved"

\* `create` of prisma.member.upsert in POST /admin/new
ManualCreate(rut, fullName, affiliate, genderRaw, statusRaw) ==
    [id           |-> nextId,
     rut          |-> rut,
     rutMasked    |-> formatRut(rut),
     fullName     |-> fullName,
     affiliate    |-> affiliate,
     gender       |-> ManualGender(genderRaw),
     status       |-> ManualStatus(statusRaw),
     token        |-> nextToken,
     lastImportAt |-> clock,
     importSource |-> ManualSource]

\* the update of the upsert that also replaces the token
ManualUpdateNewToken(m, rut, fullName, affiliate, genderRaw, statusRaw) ==
    [m EXCEPT !.fullName     = fullName,
              !.rutMasked    = formatRut(rut),
              !.affiliate    = affiliate,
              !.gender       = ManualGender(genderRaw),
              !.status       = ManualStatus(statusRaw),
              !.token        = nextToken,
              !.lastImportAt = clock,
              !.importSource = ManualSource]

\* `update` of prisma.member.upsert in POST /admin/new, applied to row m
ManualUpdate(m, rut, fullName, affiliate, genderRaw, statusRaw) ==
    [m EXCEPT !.fullName     = fullName,
              !.rutMasked    = formatRut(rut),
              !.affiliate    = affiliate,
              !.gender       = ManualGender(genderRaw),
              !.status       = ManualStatus(statusRaw),
              !.lastImportAt = clock,
              !.importSource = ManualSource]

\* newStatus of POST /admin/members/:id/toggle
ToggledStatus(status) == IF status = "ACTIVE" THEN "INACTIVE" ELSE "ACTIVE"

\* normalizeRutMember that keeps the leading zeros of the number part
normalizeRutMemberKeepsZeros(raw) ==
    LET s       == ToUpperCase(Trim(Str(raw)))
        compact == KeepOnly(s, RutChars)
    IN  IF Len(compact) < 2 THEN << >>
        ELSE SubSeq(compact, 1, Len(compact) - 1) \o <<"-">>
             \o SubSeq(compact, Len(compact), Len(compact))

\* normalizeRutMember of server.ts, used by POST /login-member
normalizeRutMember(raw) ==
    LET s       == ToUpperCase(Trim(Str(raw)))
        compact == KeepOnly(s, RutChars)
    IN  IF Len(compact) < 2 THEN << >>
        ELSE LET dv       == SubSeq(compact, Len(compact), Len(compact))
                 stripped == StripLeadingZeros(SubSeq(compact, 1, Len(compact) - 1))
                 num      == IF stripped = << >> THEN <<"0">> ELSE stripped
             IN  num \o <<"-">> \o dv

\* POST /login-member: the status the handler answers with
LoginMemberOutcome(rutInput) ==
    IF rutInput = << >> THEN "missingRut"
    ELSE IF normalizeRutMember(rutInput) = << >> THEN "invalidRut"
    ELSE IF ~MemberExists(normalizeRutMember(rutInput)) THEN "notFound"
    ELSE "redirectCredential"

\* what a panel request was answered
Answer(op, input, kind) == [op |-> op, input |-> input, kind |-> kind]

NoPanel == Answer("none", << >>, "none")

-----------------------------------------------------------------------------
(* Inputs of the RUT utilities *)

MaxRaw == 4
MaxDigits == 7

RutAlphabet == {"0", "1", "K", "k", "-", ".", " "}

IdDigits == {"0", "1", "9"}

SeqsUpTo(S, n) == UNION {[1..k -> S] : k \in 0..n}

\* every string of at most MaxRaw characters over RutAlphabet
ShortInputs == SeqsUpTo(RutAlphabet, MaxRaw)

\* <digits>-<dv> with 1..MaxDigits digits
DigitIds ==
    {num \o <<"-", dv>> : num \in (SeqsUpTo(IdDigits, MaxDigits) \ {<< >>}),
                          dv \in {"1", "K"}}

DocExamples ==
    { <<"1","0",".","0","1","7",".","4","5","2","-","9">>,
      <<"1","0","0","1","7","4","5","2","K">>,
      <<"9","3","1","3","1","3","7","-","1">>,
      <<"5">>,
      Null }

RawInputs == ShortInputs \cup DigitIds \cup DocExamples

RetypeChars == {"0", "1", "K"}

\* positions of raw whose character survives the cleaning of normalizeRut
CleanPositions(raw) ==
    {i \in DOMAIN Str(raw) : UpperChar(Str(raw)[i]) \in RutChars}

-----------------------------------------------------------------------------
(* Worksheets handed to the parser *)

MaxRows == 3
MaxBody == 2
BlankSlack == 1

HdrSeparate == <<LabelRut, LabelDv, LabelNombre, LabelGenero>>
HdrCombined == <<LabelRutDv, LabelNombre, LabelGenero>>
HdrBoth     == <<LabelRut, LabelDv, LabelNombre, LabelRutDv>>
HdrLoose    == << << >>, <<" ", "r", "u", "t", " ">>, <<"D", "v">>,
                 <<"n", "o", "m", "b", "r", "e">> >>
HdrPartial  == <<LabelRut, LabelNombre, LabelGenero>>

RowAna      == << <<"1","2","3","4","5","6","7">>, <<"k">>, <<"A","N","A">>,
                 <<"F","E","M">> >>
RowAnaDots  == << <<"1",".","2","3","4",".","5","6","7","-","K">>, << >>,
                 <<"A","N","A"," ","B">>, <<"m","a","s","c">> >>
RowLuis     == << <<"7","6","5","4","3","2","1">>, <<"9">>, <<"L","U","I","S">>, Null >>
RowLetters  == << <<"A","B","C","D","E","F">>, <<"1">>, <<"P","E","D","R","O">>, << >> >>
RowShortRut == << <<"1","2","3","4","5">>, <<"1">>, <<"T","E","O">>, << >> >>
RowLongDv   == << <<"7","6","5","4","3","2","1">>, <<"1","0">>, <<"E","V","A">>, << >> >>
RowNoName   == << <<"7","6","5","4","3","2","1">>, <<"9">>, <<" ">>, << >> >>
RowOnlyK    == << <<"k">>, << >>, <<"K","A","R","L">>, << >> >>
RowJoined   == << <<"1","2",".","3","4","5",".","6","7","8","-","5">>,
                 <<"E","V","A">>, <<"f","e","m","e","n","i","n","o">> >>
RowBlank    == << << >>, <<" ">>, Null >>
RowDashDv   == << <<"7","6","5","4","3","2","1">>, <<"-","9">>, <<"R","O","S","A">>, << >> >>
RowWordLongDv == << <<"A","B","C">>, <<"1","0">>, <<"U","N","A">>, << >> >>
RowJoinedK  == << <<"1","2"," ","3","4","5"," ","6","7","8","-","k">>,
                 <<"I","V","O">>, << >> >>
RowIris     == << <<"2","3","4","5","6","7","8">>, <<"5">>, <<"I","R","I","S">>,
                 <<"F","e","m","/","M","a","s","c">> >>
RowNoa      == << <<"3","4","5","6","7","8","9">>, <<"1">>, <<"N","O","A">>,
                 <<"o","t","r","o">> >>

HeaderRows == {HdrSeparate, HdrCombined, HdrBoth, HdrLoose, HdrPartial}

DataRows == {RowAna, RowAnaDots, RowLuis, RowLetters, RowShortRut, RowLongDv,
             RowNoName, RowOnlyK, RowJoined, RowBlank, RowDashDv, RowWordLongDv,
             RowJoinedK}

\* at most MaxRows rows, header rows mixed with a data row and a blank row
HeaderGrids == SeqsUpTo(HeaderRows \cup {RowAna, RowBlank}, MaxRows)

\* a header directly followed by at most MaxBody data rows
TableGrids ==
    {<<hdr>> \o body : hdr \in {HdrSeparate, HdrCombined, HdrLoose},
                       body \in SeqsUpTo(DataRows, MaxBody)}

\* n blank rows
Blanks(n) == [i \in 1..n |-> RowBlank]

BlankRunLengths ==
    {0} \cup (EmptyLimit - BlankSlack)..(EmptyLimit + BlankSlack)

\* a run of blank rows followed by a valid row or by a row without name
Segments ==
    {Blanks(n) \o tail : n \in BlankRunLengths,
                         tail \in {<<RowLuis>>, <<RowNoName>>}}

\* a header followed by three segments: tables with long gaps
GappedGrids ==
    {<<hdr>> \o s1 \o s2 \o s3 : hdr \in {HdrSeparate, HdrCombined},
                                 s1 \in Segments, s2 \in Segments, s3 \in Segments}

-----------------------------------------------------------------------------
(* Inputs of the import: uploaded files, form fields, the table at the start *)

MaxRuns == 2

\* rows below a RUT / DV / NOMBRE / GENERO header: valid rows, two of them
\* with the same RUT, a row whose RUT does not normalize, discarded rows
SeparateBodyRows == {RowAna, RowAnaDots, RowLuis, RowOnlyK, RowNoName, RowLetters}

\* rows below a RUT DV / NOMBRE / GENERO header
CombinedBodyRows == {RowJoined, RowAna}

\* files whose header is found: a header and at most MaxBody data rows
TableFiles ==
    {<<HdrSeparate>> \o body : body \in SeqsUpTo(SeparateBodyRows, MaxBody)}
    \cup {<<HdrCombined>> \o body : body \in SeqsUpTo(CombinedBodyRows, MaxBody)}

\* files without any header row
HeaderlessFiles ==
    { << >>, <<RowBlank>>, <<RowLuis, RowAna>>, <<HdrPartial, RowAna>> }

\* a table with valid rows, a row whose RUT does not normalize and rows the
\* parser discards
MixedFile == <<HdrSeparate, RowAna, RowNoName, RowOnlyK, RowLetters, RowLuis>>

\* a table whose gender cells name one gender, both, neither, or are blank
GenderFile == <<HdrSeparate, RowAna, RowAnaDots, RowIris, RowNoa, RowLuis>>

ImportFiles == TableFiles \cup HeaderlessFiles \cup {MixedFile, GenderFile}

\* a file whose header is found and that holds no data row
HeaderOnlyFile == <<HdrSeparate>>

Affiliates == {"FENATS OCTAVA"}

ImportSources == {"Arauco 12/2025"}

\* a member entered before the import, since set inactive
OldMember ==
    [id           |-> 1,
     rut          |-> <<"1","2","3","4","5","6","7","-","K">>,
     rutMasked    |-> <<"1",".","2","3","4",".","5","6","7","-","K">>,
     fullName     |-> <<"O","L","D">>,
     affiliate    |-> "null",
     gender       |-> "OTHER",
     status       |-> "INACTIVE",
     token        |-> 1,
     lastImportAt |-> 0,
     importSource |-> <<"Manual", "admin">>]

InitialTables == { {}, {OldMember} }

-----------------------------------------------------------------------------
(* Inputs of the panel requests *)

MaxOps == 2

NameAdmin == <<"a","d","m","i","n">>
NameClerk == <<"c","l","e","r","k">>
NameGuest == <<"g","u","e","s","t">>
NameNina  == <<"n","i","n","a">>

\* the password of the seed script
SeedPassword == <<"a","d","m","i","n","1","2","3">>

OtherPassword == <<"f","e","n","a","t","s","2","6">>

ShortPassword == <<"a","b","c">>

\* the superadmin of the seed script
Root == [id |-> 1, username |-> NameAdmin, password |-> SeedPassword,
         role |-> "SUPERADMIN", isActive |-> TRUE]

\* users the superadmin created since
Clerk == [id |-> 2, username |-> NameClerk, password |-> SeedPassword,
          role |-> "ADMIN", isActive |-> TRUE]

Guest == [id |-> 3, username |-> NameGuest, password |-> SeedPassword,
          role |-> "VIEWER", isActive |-> TRUE]

InitialAdminUsers == {Root, Clerk, Guest}

LoginNames == {NameAdmin, NameGuest, NameNina}

LoginPasswords == {SeedPassword, OtherPassword}

NewUserNames == {NameNina, NameClerk}

NewUserPasswords == {OtherPassword, ShortPassword}

NewUserRoles == {<<"a","d","m","i","n">>}

AdminIds == {2, 4}

MemberIds == {1, 2}

EntryNames == {<<"E","V","A">>, <<" ">>}

\* the RUT of OldMember and of RowAna typed with dots, a new RUT with a
\* leading zero, a text that is no RUT
EntryRuts ==
    { <<"1",".","2","3","4",".","5","6","7","-","k">>,
      <<"0","7","6","5","4","3","2","1","-","9">>,
      <<"5">> }

EntryGenders == {<<"O","T","H","E","R">>}

EntryStatuses == {<<"I","N","A","C","T","I","V","E">>, << >>}

\* what a member types at /login-member
MemberLoginInputs ==
    { <<"1","2","3","4","5","6","7","-","k">>,
      <<" ","0","1",".","2","3","4",".","5","6","7","K"," ">>,
      <<"1","2","3","4","5","6","7","-","9">>,
      <<"k">>,
      <<" ">> }

\* files uploaded while the panel is in use
PanelFiles == { <<HdrSeparate, RowAna, RowLuis, RowOnlyK>> }

-----------------------------------------------------------------------------
(* Parts of the model that a specification leaves out stay idle *)

\* the parser is not running
SheetIdle ==
    /\ sheetPc = "off"
    /\ sheet = << >>
    /\ sheetHeader = NoHeader
    /\ sheetEmitted = << >>
    /\ sheetRows = << >>

\* the RUT utilities are not running
RutIdle ==
    /\ rutPc = "off"
    /\ rutIn = << >>
    /\ rutOut = << >>
    /\ rutAgain = << >>
    /\ rutMasked = << >>
    /\ rutPrev = [raw |-> << >>, out |-> << >>]

\* no upload request is in progress and the Member table is empty
ImportIdle ==
    /\ role = "NONE"
    /\ members = {}
    /\ nextId = 1
    /\ nextToken = 1
    /\ clock = 1
    /\ pc = [p \in Reqs |-> "off"]
    /\ file = [p \in Reqs |-> << >>]
    /\ form = [p \in Reqs |-> [affiliate |-> "", importSource |-> ""]]
    /\ parsed = [p \in Reqs |-> << >>]
    /\ idx = [p \in Reqs |-> 1]
    /\ exists = [p \in Reqs |-> FALSE]
    /\ created = [p \in Reqs |-> 0]
    /\ updated = [p \in Reqs |-> 0]
    /\ skipped = [p \in Reqs |-> 0]
    /\ response = [p \in Reqs |-> NoResponse]
    /\ runs = [p \in Reqs |-> 0]
    /\ rowLog = [p \in Reqs |-> << >>]
    /\ lookups = [p \in Reqs |-> 0]
    /\ writes = [p \in Reqs |-> 0]
    /\ startMembers = [p \in Reqs |-> {}]
    /\ prevRun = [p \in Reqs |-> NoRun]
    /\ adminUsers = {}
    /\ sessionUser = 0
    /\ loginSteps = << >>
    /\ ops = 0
    /\ panel = NoPanel

-----------------------------------------------------------------------------
(* RUT utility runs: one raw input, normalised, re-normalised, formatted *)

InitRut ==
    /\ rutPc = "input"
    /\ rutIn \in RawInputs
    /\ rutOut = << >>
    /\ rutAgain = << >>
    /\ rutMasked = << >>
    /\ rutPrev = [raw |-> << >>, out |-> << >>]
    /\ SheetIdle
    /\ ImportIdle

\* rut = normalizeRut(raw)
Normalize ==
    /\ rutPc = "input"
    /\ rutOut' = normalizeRut(rutIn)
    /\ rutPc' = "normalized"
    /\ UNCHANGED <<rutIn, rutAgain, rutMasked, rutPrev>>
    /\ UNCHANGED <<sheetVars, importVars>>

\* a stored rut is normalised again (formatRut, search)
Renormalize ==
    /\ rutPc = "normalized"
    /\ rutOut # << >>
    /\ rutAgain' = normalizeRut(rutOut)
    /\ rutPc' = "renormalized"
    /\ UNCHANGED <<rutIn, rutOut, rutMasked, rutPrev>>
    /\ UNCHANGED <<sheetVars, importVars>>

\* the same input with another check digit typed, normalised in turn
RetypeDv(d) ==
    /\ rutPc = "normalized"
    /\ rutOut # << >>
    /\ LET last == CHOOSE i \in CleanPositions(rutIn) :
                       \A j \in CleanPositions(rutIn) : j <= i
           next == [Str(rutIn) EXCEPT ![last] = d]
       IN  /\ UpperChar(Str(rutIn)[last]) # d
           /\ rutPrev' = [raw |-> rutIn, out |-> rutOut]
           /\ rutIn' = next
           /\ rutOut' = normalizeRut(next)
    /\ rutPc' = "retyped"
    /\ UNCHANGED <<rutAgain, rutMasked>>
    /\ UNCHANGED <<sheetVars, importVars>>

\* rutMasked = formatRut(raw)
Format ==
    /\ rutPc = "input"
    /\ rutMasked' = formatRut(rutIn)
    /\ rutPc' = "formatted"
    /\ UNCHANGED <<rutIn, rutOut, rutAgain, rutPrev>>
    /\ UNCHANGED <<sheetVars, importVars>>

NextRut ==
    \/ Normalize
    \/ Renormalize
    \/ \E d \in RetypeChars : RetypeDv(d)
    \/ Format

SpecRut == InitRut /\ [][NextRut]_vars

-----------------------------------------------------------------------------
(* Parser runs: one worksheet, header search, then row extraction *)

InitParse ==
    /\ sheetPc = "sheet"
    /\ sheet \in HeaderGrids \cup TableGrids \cup GappedGrids
    /\ sheetHeader = NoHeader
    /\ sheetEmitted = << >>
    /\ sheetRows = << >>
    /\ RutIdle
    /\ ImportIdle

\* step 1 of parseFenatsExcel: find the header row
Locate ==
    /\ sheetPc = "sheet"
    /\ sheetHeader' = LocateHeader(sheet)
    /\ sheetPc' = "located"
    /\ UNCHANGED <<sheet, sheetEmitted, sheetRows>>
    /\ UNCHANGED <<rutVars, importVars>>

\* step 2 of parseFenatsExcel: read the rows below the header
Extract ==
    /\ sheetPc = "located"
    /\ sheetEmitted' = EmittedRows(sheet)
    /\ sheetRows' = parseFenatsExcel(sheet)
    /\ sheetPc' = "parsed"
    /\ UNCHANGED <<sheet, sheetHeader>>
    /\ UNCHANGED <<rutVars, importVars>>

NextParse ==
    \/ Locate
    \/ Extract

SpecParse == InitParse /\ [][NextParse]_vars

-----------------------------------------------------------------------------
(* Import runs: requests to POST /admin/upload against the Member table *)

UploadRoles == {"ADMIN", "SUPERADMIN"}

Init ==
    /\ role \in Roles
    /\ members \in InitialTables
    /\ nextId = 2
    /\ nextToken = 2
    /\ clock = 1
    /\ pc = [p \in Reqs |-> IF p = 1 THEN "idle" ELSE "off"]
    /\ file = [p \in Reqs |-> << >>]
    /\ form = [p \in Reqs |-> [affiliate |-> "", importSource |-> ""]]
    /\ parsed = [p \in Reqs |-> << >>]
    /\ idx = [p \in Reqs |-> 1]
    /\ exists = [p \in Reqs |-> FALSE]
    /\ created = [p \in Reqs |-> 0]
    /\ updated = [p \in Reqs |-> 0]
    /\ skipped = [p \in Reqs |-> 0]
    /\ response = [p \in Reqs |-> NoResponse]
    /\ runs = [p \in Reqs |-> 0]
    /\ rowLog = [p \in Reqs |-> << >>]
    /\ lookups = [p \in Reqs |-> 0]
    /\ writes = [p \in Reqs |-> 0]
    /\ startMembers = [p \in Reqs |-> {}]
    /\ prevRun = [p \in Reqs |-> NoRun]
    /\ adminUsers = InitialAdminUsers
    /\ sessionUser \in {0} \cup {u.id : u \in InitialAdminUsers}
    /\ role = (IF sessionUser = 0 THEN "NONE" ELSE AdminById(sessionUser).role)
    /\ loginSteps = (IF sessionUser = 0 THEN << >> ELSE <<"password">>)
    /\ ops = 0
    /\ panel = NoPanel
    /\ RutIdle
    /\ SheetIdle

\* requireRole stops the request: redirect to the login page or 403
UploadDenied(p) ==
    /\ pc[p] = "idle"
    /\ RequireRole(role, UploadRoles) # "next"
    /\ response' = [response EXCEPT ![p] = [kind |-> RequireRole(role, UploadRoles)]]
    /\ pc' = [pc EXCEPT ![p] = "denied"]
    /\ UNCHANGED <<role, storeVars, logVars>>
    /\ UNCHANGED <<file, form, parsed, idx, exists, created, updated, skipped, runs>>
    /\ UNCHANGED <<rutVars, sheetVars, panelVars>>

\* the request carries no file
UploadNoFile(p) ==
    /\ pc[p] = "idle"
    /\ RequireRole(role, UploadRoles) = "next"
    /\ response' = [response EXCEPT ![p] = [kind |-> "noFile"]]
    /\ pc' = [pc EXCEPT ![p] = "nofile"]
    /\ UNCHANGED <<role, storeVars, logVars>>
    /\ UNCHANGED <<file, form, parsed, idx, exists, created, updated, skipped, runs>>
    /\ UNCHANGED <<rutVars, sheetVars, panelVars>>

\* the handler up to the row loop: form fields, parseFenatsExcel, counters at 0
StartImport(p, g, f) ==
    /\ RequireRole(role, UploadRoles) = "next"
    /\ file' = [file EXCEPT ![p] = g]
    /\ form' = [form EXCEPT ![p] = f]
    /\ parsed' = [parsed EXCEPT ![p] = parseFenatsExcel(g)]
    /\ idx' = [idx EXCEPT ![p] = 1]
    /\ exists' = [exists EXCEPT ![p] = FALSE]
    /\ created' = [created EXCEPT ![p] = 0]
    /\ updated' = [updated EXCEPT ![p] = 0]
    /\ skipped' = [skipped EXCEPT ![p] = 0]
    /\ response' = [response EXCEPT ![p] = NoResponse]
    /\ runs' = [runs EXCEPT ![p] = @ + 1]
    /\ pc' = [pc EXCEPT ![p] = "row"]
    /\ rowLog' = [rowLog EXCEPT ![p] = << >>]
    /\ lookups' = [lookups EXCEPT ![p] = 0]
    /\ writes' = [writes EXCEPT ![p] = 0]
    /\ startMembers' = [startMembers EXCEPT ![p] = members]
    /\ prevRun' = [prevRun EXCEPT ![p] =
                      IF runs[p] = 0 THEN NoRun
                      ELSE [file |-> file[p], response |-> response[p],
                            startMembers |-> startMembers[p]]]
    /\ UNCHANGED <<role, storeVars>>
    /\ UNCHANGED <<rutVars, sheetVars, panelVars>>

\* first upload of a file
Upload(p, g, f) ==
    /\ pc[p] = "idle"
    /\ StartImport(p, g, f)

\* after the summary the operator uploads again: the same file, or a file
\* that holds only a header
Reupload(p, g) ==
    /\ pc[p] = "done"
    /\ runs[p] < MaxRuns
    /\ StartImport(p, g, form[p])

CurrentRow(p) == parsed[p][idx[p]]

\* rut = normalizeRut(row.rutRaw)
CurrentRut(p) == normalizeRut(CurrentRow(p).rutRaw)

\* if (!rut) { skipped++; continue; }
SkipRow(p) ==
    /\ pc[p] = "row"
    /\ idx[p] <= Len(parsed[p])
    /\ CurrentRut(p) = << >>
    /\ skipped' = [skipped EXCEPT ![p] = @ + 1]
    /\ idx' = [idx EXCEPT ![p] = @ + 1]
    /\ rowLog' = [rowLog EXCEPT ![p] = Append(@, "skipped")]
    /\ UNCHANGED <<role, storeVars>>
    /\ UNCHANGED <<pc, file, form, parsed, exists, created, updated, response, runs>>
    /\ UNCHANGED <<lookups, writes, startMembers, prevRun>>
    /\ UNCHANGED <<rutVars, sheetVars, panelVars>>

\* exists = await prisma.member.findUnique({ where: { rut } })
Lookup(p) ==
    /\ pc[p] = "row"
    /\ idx[p] <= Len(parsed[p])
    /\ CurrentRut(p) # << >>
    /\ exists' = [exists EXCEPT ![p] = MemberExists(CurrentRut(p))]
    /\ lookups' = [lookups EXCEPT ![p] = @ + 1]
    /\ pc' = [pc EXCEPT ![p] = "write"]
    /\ UNCHANGED <<role, storeVars>>
    /\ UNCHANGED <<file, form, parsed, idx, created, updated, skipped, response, runs>>
    /\ UNCHANGED <<rowLog, writes, startMembers, prevRun>>
    /\ UNCHANGED <<rutVars, sheetVars, panelVars>>

\* the write as an upsert: a create that meets a stored rut updates it
WriteUpsert(p) ==
    /\ pc[p] = "write"
    /\ LET rut == CurrentRut(p)
       IN  /\ pc' = [pc EXCEPT ![p] = "row"]
           /\ UNCHANGED response
           /\ idx' = [idx EXCEPT ![p] = @ + 1]
           /\ writes' = [writes EXCEPT ![p] = @ + 1]
           /\ clock' = clock + 1
           /\ IF MemberExists(rut)
              THEN /\ members' = (members \ {MemberByRut(rut)})
                          \cup {UpdatedMember(MemberByRut(rut), rut, CurrentRow(p), form[p])}
                   /\ updated' = [updated EXCEPT ![p] = @ + 1]
                   /\ rowLog' = [rowLog EXCEPT ![p] = Append(@, "updated")]
                   /\ UNCHANGED <<nextId, nextToken, created>>
              ELSE /\ members' = members \cup {CreatedMember(rut, CurrentRow(p), form[p])}
                   /\ nextId' = nextId + 1
                   /\ nextToken' = nextToken + 1
                   /\ created' = [created EXCEPT ![p] = @ + 1]
                   /\ rowLog' = [rowLog EXCEPT ![p] = Append(@, "created")]
                   /\ UNCHANGED updated
    /\ UNCHANGED <<role, file, form, parsed, exists, skipped, runs>>
    /\ UNCHANGED <<lookups, startMembers, prevRun>>
    /\ UNCHANGED <<rutVars, sheetVars, panelVars>>

\* the write inside try / catch: a rejected row is counted skipped and the
\* loop goes on
WriteCatchesRejection(p) ==
    /\ pc[p] = "write"
    /\ LET rut      == CurrentRut(p)
           rejected == IF exists[p] THEN ~ViolatesRutKey(rut) ELSE ViolatesRutKey(rut)
       IN  /\ pc' = [pc EXCEPT ![p] = "row"]
           /\ idx' = [idx EXCEPT ![p] = @ + 1]
           /\ UNCHANGED response
           /\ IF rejected
              THEN /\ skipped' = [skipped EXCEPT ![p] = @ + 1]
                   /\ rowLog' = [rowLog EXCEPT ![p] = Append(@, "skipped")]
                   /\ UNCHANGED <<storeVars, created, updated, writes>>
              ELSE /\ writes' = [writes EXCEPT ![p] = @ + 1]
                   /\ clock' = clock + 1
                   /\ UNCHANGED skipped
                   /\ IF exists[p]
                      THEN /\ members' = (members \ {MemberByRut(rut)})
                                  \cup {UpdatedMember(MemberByRut(rut), rut, CurrentRow(p), form[p])}
                           /\ updated' = [updated EXCEPT ![p] = @ + 1]
                           /\ rowLog' = [rowLog EXCEPT ![p] = Append(@, "updated")]
                           /\ UNCHANGED <<nextId, nextToken, created>>
                      ELSE /\ members' = members \cup {CreatedMember(rut, CurrentRow(p), form[p])}
                           /\ nextId' = nextId + 1
                           /\ nextToken' = nextToken + 1
                           /\ created' = [created EXCEPT ![p] = @ + 1]
                           /\ rowLog' = [rowLog EXCEPT ![p] = Append(@, "created")]
                           /\ UNCHANGED updated
    /\ UNCHANGED <<role, file, form, parsed, exists, runs>>
    /\ UNCHANGED <<lookups, startMembers, prevRun>>
    /\ UNCHANGED <<rutVars, sheetVars, panelVars>>

\* await prisma.member.create(...) or await prisma.member.update(...), then
\* the counter; the table rejects a create of a rut it holds (Member_rut_key)
\* and an update of a rut it does not hold; the rejection leaves the handler,
\* which has no try / catch
Write(p) ==
    /\ pc[p] = "write"
    /\ LET rut      == CurrentRut(p)
           rejected == IF exists[p] THEN ~ViolatesRutKey(rut) ELSE ViolatesRutKey(rut)
       IN  IF rejected
           THEN /\ pc' = [pc EXCEPT ![p] = "failed"]
                /\ response' \in {[response EXCEPT ![p] = [kind |-> x]] :
                                     x \in UncaughtOutcomes}
                /\ UNCHANGED <<storeVars, idx, created, updated, rowLog, writes>>
           ELSE /\ pc' = [pc EXCEPT ![p] = "row"]
                /\ UNCHANGED response
                /\ idx' = [idx EXCEPT ![p] = @ + 1]
                /\ writes' = [writes EXCEPT ![p] = @ + 1]
                /\ clock' = clock + 1
                /\ IF exists[p]
                   THEN /\ members' = (members \ {MemberByRut(rut)})
                               \cup {UpdatedMember(MemberByRut(rut), rut, CurrentRow(p), form[p])}
                        /\ updated' = [updated EXCEPT ![p] = @ + 1]
                        /\ rowLog' = [rowLog EXCEPT ![p] = Append(@, "updated")]
                        /\ UNCHANGED <<nextId, nextToken, created>>
                   ELSE /\ members' = members \cup {CreatedMember(rut, CurrentRow(p), form[p])}
                        /\ nextId' = nextId + 1
                        /\ nextToken' = nextToken + 1
                        /\ created' = [created EXCEPT ![p] = @ + 1]
                        /\ rowLog' = [rowLog EXCEPT ![p] = Append(@, "created")]
                        /\ UNCHANGED updated
    /\ UNCHANGED <<role, file, form, parsed, exists, skipped, runs>>
    /\ UNCHANGED <<lookups, startMembers, prevRun>>
    /\ UNCHANGED <<rutVars, sheetVars, panelVars>>

\* after the loop: res.render("admin/upload", { message, stats })
Render(p) ==
    /\ pc[p] = "row"
    /\ idx[p] > Len(parsed[p])
    /\ response' = [response EXCEPT ![p] =
                       UploadSummary(parsed[p], created[p], updated[p], skipped[p])]
    /\ pc' = [pc EXCEPT ![p] = "done"]
    /\ UNCHANGED <<role, storeVars, logVars>>
    /\ UNCHANGED <<file, form, parsed, idx, exists, created, updated, skipped, runs>>
    /\ UNCHANGED <<rutVars, sheetVars, panelVars>>

Next ==
    \E p \in Reqs :
        \/ UploadDenied(p)
        \/ UploadNoFile(p)
        \/ \E g \in ImportFiles, a \in Affiliates, s \in ImportSources :
              Upload(p, g, [affiliate |-> a, importSource |-> s])
        \/ \E g \in {file[p], HeaderOnlyFile} : Reupload(p, g)
        \/ SkipRow(p)
        \/ Lookup(p)
        \/ Write(p)
        \/ Render(p)

Spec == Init /\ [][Next]_vars

-----------------------------------------------------------------------------
(* Panel runs: one session sending panel requests while it imports *)

AdminOnly == {"SUPERADMIN"}

\* no upload of the session is inside its row loop
NoImportInFlight == \A p \in Reqs : pc[p] \notin {"row", "write"}

InitAdmin ==
    /\ members \in InitialTables
    /\ nextId = 2
    /\ nextToken = 2
    /\ clock = 1
    /\ pc = [p \in Reqs |-> IF p = 1 THEN "idle" ELSE "off"]
    /\ file = [p \in Reqs |-> << >>]
    /\ form = [p \in Reqs |-> [affiliate |-> "", importSource |-> ""]]
    /\ parsed = [p \in Reqs |-> << >>]
    /\ idx = [p \in Reqs |-> 1]
    /\ exists = [p \in Reqs |-> FALSE]
    /\ created = [p \in Reqs |-> 0]
    /\ updated = [p \in Reqs |-> 0]
    /\ skipped = [p \in Reqs |-> 0]
    /\ response = [p \in Reqs |-> NoResponse]
    /\ runs = [p \in Reqs |-> 0]
    /\ rowLog = [p \in Reqs |-> << >>]
    /\ lookups = [p \in Reqs |-> 0]
    /\ writes = [p \in Reqs |-> 0]
    /\ startMembers = [p \in Reqs |-> {}]
    /\ prevRun = [p \in Reqs |-> NoRun]
    /\ adminUsers = InitialAdminUsers
    /\ sessionUser \in {0} \cup {u.id : u \in InitialAdminUsers}
    /\ role = (IF sessionUser = 0 THEN "NONE" ELSE AdminById(sessionUser).role)
    /\ loginSteps = (IF sessionUser = 0 THEN << >> ELSE <<"password">>)
    /\ ops = 0
    /\ panel = NoPanel
    /\ RutIdle
    /\ SheetIdle

\* POST /admin/login
Login(usernameRaw, password) ==
    /\ ops < MaxOps
    /\ NoImportInFlight
    /\ LET username == Trim(Str(usernameRaw))
           kind     == LoginOutcome(username, password)
       IN  /\ panel' = Answer("login", << >>, kind)
           /\ IF kind = "redirectAdmin"
              THEN /\ role' = AdminByUsername(username).role
                   /\ sessionUser' = AdminByUsername(username).id
                   /\ loginSteps' = <<"password">>
              ELSE UNCHANGED <<role, sessionUser, loginSteps>>
    /\ ops' = ops + 1
    /\ UNCHANGED <<storeVars, reqVars, logVars, adminUsers>>
    /\ UNCHANGED <<rutVars, sheetVars>>

\* GET /admin/logout
Logout ==
    /\ ops < MaxOps
    /\ NoImportInFlight
    /\ role # "NONE"
    /\ role' = "NONE"
    /\ sessionUser' = 0
    /\ loginSteps' = << >>
    /\ panel' = Answer("logout", << >>, "redirectLogin")
    /\ ops' = ops + 1
    /\ UNCHANGED <<storeVars, reqVars, logVars, adminUsers>>
    /\ UNCHANGED <<rutVars, sheetVars>>

\* POST /admin/users/new
CreateAdminUser(usernameRaw, password, password2, roleRaw, emailRequired) ==
    /\ ops < MaxOps
    /\ NoImportInFlight
    /\ LET gate     == RequireRole(role, AdminOnly)
           username == Trim(Str(usernameRaw))
           kind     == IF gate # "next" THEN gate
                       ELSE NewUserOutcome(username, password, password2, emailRequired)
       IN  /\ panel' = Answer("users/new", << >>, kind)
           /\ IF kind = "created"
              THEN adminUsers' = adminUsers \cup {CreatedAdmin(username, password, roleRaw)}
              ELSE UNCHANGED adminUsers
    /\ ops' = ops + 1
    /\ UNCHANGED <<role, sessionUser, loginSteps, storeVars, reqVars, logVars>>
    /\ UNCHANGED <<rutVars, sheetVars>>

\* POST /admin/users/:id/toggle
ToggleAdminUser(id) ==
    /\ ops < MaxOps
    /\ NoImportInFlight
    /\ LET gate == RequireRole(role, AdminOnly)
           kind == IF gate # "next" THEN gate ELSE ToggleUserOutcome(id)
       IN  /\ panel' = Answer("users/toggle", << >>, kind)
           /\ IF kind = "redirectUsers"
              THEN adminUsers' = (adminUsers \ {AdminById(id)})
                       \cup {[AdminById(id) EXCEPT !.isActive = ~@]}
              ELSE UNCHANGED adminUsers
    /\ ops' = ops + 1
    /\ UNCHANGED <<role, sessionUser, loginSteps, storeVars, reqVars, logVars>>
    /\ UNCHANGED <<rutVars, sheetVars>>

\* POST /admin/users/:id/reset-password
ResetPassword(id, password, uncaught) ==
    /\ ops < MaxOps
    /\ NoImportInFlight
    /\ LET gate == RequireRole(role, AdminOnly)
           kind == IF gate # "next" THEN gate
                   ELSE ResetPasswordOutcome(id, password, uncaught)
       IN  /\ panel' = Answer("users/reset-password", << >>, kind)
           /\ IF kind = "redirectUsers"
              THEN adminUsers' = (adminUsers \ {AdminById(id)})
                       \cup {[AdminById(id) EXCEPT !.password = password]}
              ELSE UNCHANGED adminUsers
    /\ ops' = ops + 1
    /\ UNCHANGED <<role, sessionUser, loginSteps, storeVars, reqVars, logVars>>
    /\ UNCHANGED <<rutVars, sheetVars>>

\* POST /admin/new
ManualEntry(fullNameRaw, rutRaw, affiliate, genderRaw, statusRaw) ==
    /\ ops < MaxOps
    /\ LET gate     == RequireRole(role, UploadRoles)
           fullName == Trim(Str(fullNameRaw))
           rutInput == Trim(Str(rutRaw))
           rut      == normalizeRut(rutInput)
           kind     == IF gate # "next" THEN gate
                       ELSE ManualEntryOutcome(fullName, rutInput)
       IN  /\ panel' = Answer("new", << >>, kind)
           /\ IF kind = "saved"
              THEN /\ IF MemberExists(rut)
                      THEN /\ members' = (members \ {MemberByRut(rut)})
                                  \cup {ManualUpdate(MemberByRut(rut), rut, fullName,
                                                     affiliate, Trim(genderRaw), Trim(statusRaw))}
                           /\ UNCHANGED nextId
                      ELSE /\ members' = members
                                  \cup {ManualCreate(rut, fullName, affiliate,
                                                     Trim(genderRaw), Trim(statusRaw))}
                           /\ nextId' = nextId + 1
                   /\ nextToken' = nextToken + 1
                   /\ clock' = clock + 1
              ELSE UNCHANGED storeVars
    /\ ops' = ops + 1
    /\ UNCHANGED <<role, sessionUser, loginSteps, adminUsers, reqVars, logVars>>
    /\ UNCHANGED <<rutVars, sheetVars>>

\* POST /admin/members/:id/toggle
ToggleMember(id) ==
    /\ ops < MaxOps
    /\ LET gate == RequireRole(role, UploadRoles)
           kind == IF gate # "next" THEN gate
                   ELSE IF ~MemberIdExists(id) THEN "notFound"
                   ELSE "redirectMembers"
       IN  /\ panel' = Answer("members/toggle", << >>, kind)
           /\ IF kind = "redirectMembers"
              THEN members' = (members \ {MemberById(id)})
                       \cup {[MemberById(id) EXCEPT !.status = ToggledStatus(@)]}
              ELSE UNCHANGED members
    /\ ops' = ops + 1
    /\ UNCHANGED <<nextId, nextToken, clock>>
    /\ UNCHANGED <<role, sessionUser, loginSteps, adminUsers, reqVars, logVars>>
    /\ UNCHANGED <<rutVars, sheetVars>>

\* POST /admin/members/:id/regen-token; an update of a missing row rejects
RegenToken(id, uncaught) ==
    /\ ops < MaxOps
    /\ LET gate == RequireRole(role, UploadRoles)
           kind == IF gate # "next" THEN gate
                   ELSE IF ~MemberIdExists(id) THEN uncaught
                   ELSE "redirectMembers"
       IN  /\ panel' = Answer("members/regen-token", << >>, kind)
           /\ IF gate = "next"
              THEN nextToken' = nextToken + 1
              ELSE UNCHANGED nextToken
           /\ IF kind = "redirectMembers"
              THEN members' = (members \ {MemberById(id)})
                       \cup {[MemberById(id) EXCEPT !.token = nextToken]}
              ELSE UNCHANGED members
    /\ ops' = ops + 1
    /\ UNCHANGED <<nextId, clock>>
    /\ UNCHANGED <<role, sessionUser, loginSteps, adminUsers, reqVars, logVars>>
    /\ UNCHANGED <<rutVars, sheetVars>>

\* POST /login-member
LoginMember(rutRaw) ==
    /\ ops < MaxOps
    /\ NoImportInFlight
    /\ LET rutInput == Trim(Str(rutRaw))
       IN  panel' = Answer("login-member", rutInput, LoginMemberOutcome(rutInput))
    /\ ops' = ops + 1
    /\ UNCHANGED <<role, sessionUser, loginSteps, adminUsers, storeVars, reqVars, logVars>>
    /\ UNCHANGED <<rutVars, sheetVars>>

NextAdmin ==
    \/ \E u \in LoginNames, w \in LoginPasswords : Login(u, w)
    \/ Logout
    \/ \E u \in NewUserNames, w \in NewUserPasswords, r \in NewUserRoles, e \in BOOLEAN :
          CreateAdminUser(u, w, OtherPassword, r, e)
    \/ \E id \in AdminIds : ToggleAdminUser(id)
    \/ \E id \in AdminIds, w \in NewUserPasswords, x \in UncaughtOutcomes :
          ResetPassword(id, w, x)
    \/ \E n \in EntryNames, r \in EntryRuts, g \in EntryGenders, s \in EntryStatuses :
          ManualEntry(n, r, "null", g, s)
    \/ \E id \in MemberIds : ToggleMember(id)
    \/ \E id \in MemberIds, x \in UncaughtOutcomes : RegenToken(id, x)
    \/ \E r \in MemberLoginInputs : LoginMember(r)
    \/ \E p \in Reqs :
          \/ UploadDenied(p)
          \/ UploadNoFile(p)
          \/ \E g \in PanelFiles, a \in Affiliates, s \in ImportSources :
                Upload(p, g, [affiliate |-> a, importSource |-> s])
          \/ SkipRow(p)
          \/ Lookup(p)
          \/ Write(p)
          \/ Render(p)

SpecAdmin == InitAdmin /\ [][NextAdmin]_vars

-----------------------------------------------------------------------------
(* Concurrent imports: two requests to POST /admin/upload served at once *)

\* the sheets the two operators upload: they share the IDs of ANA and LUIS
ConcurrentFiles ==
    { <<HdrSeparate, RowAna, RowLuis>>,
      <<HdrSeparate, RowLuis, RowAnaDots>>,
      <<HdrSeparate, RowOnlyK, RowAna>> }

InitConcurrent ==
    /\ members \in InitialTables
    /\ nextId = 2
    /\ nextToken = 2
    /\ clock = 1
    /\ pc = [p \in Reqs |-> "idle"]
    /\ file = [p \in Reqs |-> << >>]
    /\ form = [p \in Reqs |-> [affiliate |-> "", importSource |-> ""]]
    /\ parsed = [p \in Reqs |-> << >>]
    /\ idx = [p \in Reqs |-> 1]
    /\ exists = [p \in Reqs |-> FALSE]
    /\ created = [p \in Reqs |-> 0]
    /\ updated = [p \in Reqs |-> 0]
    /\ skipped = [p \in Reqs |-> 0]
    /\ response = [p \in Reqs |-> NoResponse]
    /\ runs = [p \in Reqs |-> 0]
    /\ rowLog = [p \in Reqs |-> << >>]
    /\ lookups = [p \in Reqs |-> 0]
    /\ writes = [p \in Reqs |-> 0]
    /\ startMembers = [p \in Reqs |-> {}]
    /\ prevRun = [p \in Reqs |-> NoRun]
    /\ adminUsers = InitialAdminUsers
    /\ sessionUser \in {u.id : u \in InitialAdminUsers}
    /\ role = AdminById(sessionUser).role
    /\ loginSteps = <<"password">>
    /\ ops = 0
    /\ panel = NoPanel
    /\ RutIdle
    /\ SheetIdle

\* each await of a handler lets the other request run: the steps of the two
\* requests interleave at findUnique and at create / update
NextConcurrent ==
    \E p \in Reqs :
        \/ UploadDenied(p)
        \/ UploadNoFile(p)
        \/ \E g \in ConcurrentFiles, a \in Affiliates, s \in ImportSources :
              Upload(p, g, [affiliate |-> a, importSource |-> s])
        \/ SkipRow(p)
        \/ Lookup(p)
        \/ Write(p)
        \/ Render(p)

SpecConcurrent == InitConcurrent /\ [][NextConcurrent]_vars

-----------------------------------------------------------------------------
(* Claims on the RUT utilities *)

\* <digits>-<checkChar>: digits without leading zero (or exactly "0"), one check character
IsCanonicalId(id) ==
    /\ Len(id) >= 3
    /\ id[Len(id) - 1] = "-"
    /\ id[Len(id)] \in RutChars
    /\ \A i \in 1..(Len(id) - 2) : id[i] \in Digits
    /\ (id[1] = "0" => Len(id) = 3)

\* C1: normalize is idempotent: whenever normalize(x) succeeds,
\* normalize(normalize(x)) = normalize(x).
C1_NormalizeIdempotent ==
    rutPc = "renormalized" => rutAgain = rutOut

C1_Witness ==
    /\ rutPc = "renormalized"
    /\ rutOut # << >>
    /\ rutOut # Str(rutIn)
    /\ rutAgain = rutOut

\* C2: every successful result of normalize is <digits>-<checkChar> with a
\* digits-only number part without leading zero, for every raw input, also
\* one with a K before the last cleaned character.
C2_CanonicalForm ==
    (rutPc = "normalized" /\ rutOut # << >>) => IsCanonicalId(rutOut)

\* C3: normalize fails exactly when fewer than 2 characters remain after
\* upper-casing and removing everything but digits and K; the check digit is
\* not validated, so two inputs differing only in the check digit normalise
\* to two distinct valid IDs.
C3_FailsIffTooShort ==
    /\ rutPc \in {"normalized", "retyped"} =>
          (rutOut = << >> <=> Cardinality(CleanPositions(rutIn)) < 2)
    /\ rutPc = "retyped" =>
          /\ rutOut # << >>
          /\ rutPrev.out # << >>
          /\ rutOut # rutPrev.out
          /\ SubSeq(rutOut, 1, Len(rutOut) - 1)
                = SubSeq(rutPrev.out, 1, Len(rutPrev.out) - 1)

C3_Witness ==
    /\ rutPc = "retyped"
    /\ rutPrev.out = <<"1", "0", "-", "1">>
    /\ rutOut = <<"1", "0", "-", "K">>

\* the number part grouped by three from the right
RECURSIVE GroupedFromRight(_)
GroupedFromRight(num) ==
    IF Len(num) <= 3 THEN num
    ELSE GroupedFromRight(SubSeq(num, 1, Len(num) - 3))
         \o <<".">> \o SubSeq(num, Len(num) - 2, Len(num))

\* C4: format of a normalized ID puts a '.' every 3 digits of the number part
\* counted from the right and keeps the check digit after the hyphen; an
\* input that does not normalize into two non-empty parts is returned unchanged.
C4_FormatGroups ==
    rutPc = "formatted" =>
        /\ IsCanonicalId(Str(rutIn)) =>
              rutMasked = GroupedFromRight(SubSeq(rutIn, 1, Len(rutIn) - 2))
                          \o SubSeq(rutIn, Len(rutIn) - 1, Len(rutIn))
        /\ Cardinality(CleanPositions(rutIn)) < 2 => rutMasked = rutIn

C4_Witness ==
    /\ rutPc = "formatted"
    /\ rutIn = <<"9","3","1","3","1","3","7","-","1">>
    /\ rutMasked = <<"9",".","3","1","3",".","1","3","7","-","1">>

-----------------------------------------------------------------------------
(* Claims on the table locator and the row extractor *)

HasLabel(row, label) == \E c \in 0..(Len(row) - 1) : upper(Cell(row, c)) = label

SeparateMatch(row) ==
    HasLabel(row, LabelRut) /\ HasLabel(row, LabelDv) /\ HasLabel(row, LabelNombre)

CombinedMatch(row) ==
    HasLabel(row, LabelRutDv) /\ HasLabel(row, LabelNombre)

\* 0-based indices of the rows that satisfy one of the two strategies
HeaderCandidates(grid) ==
    {r \in 0..(Len(grid) - 1) : SeparateMatch(grid[r + 1]) \/ CombinedMatch(grid[r + 1])}

\* C5: locate accepts the topmost row that satisfies the separate-columns or
\* the combined-column strategy, chooses separate columns when that row
\* satisfies both, never maps both strategies at once, and a later matching
\* row never replaces the accepted header.
C5_LocateFirstMatch ==
    sheetPc \in {"located", "parsed"} =>
        LET cand == HeaderCandidates(sheet)
            h    == sheetHeader
        IN  /\ cand = {} => h.headerRow = -1
            /\ cand # {} =>
                  /\ h.headerRow \in cand
                  /\ \A r \in cand : h.headerRow <= r
                  /\ upper(Cell(sheet[h.headerRow + 1], h.nameCol)) = LabelNombre
                  /\ IF SeparateMatch(sheet[h.headerRow + 1])
                     THEN /\ upper(Cell(sheet[h.headerRow + 1], h.rutCol)) = LabelRut
                          /\ upper(Cell(sheet[h.headerRow + 1], h.dvCol)) = LabelDv
                          /\ h.rutDvCol = -1
                     ELSE /\ upper(Cell(sheet[h.headerRow + 1], h.rutDvCol)) = LabelRutDv
                          /\ h.rutCol = -1
                          /\ h.dvCol = -1
            /\ ~((h.rutCol >= 0 \/ h.dvCol >= 0) /\ h.rutDvCol >= 0)

\* a header below the top row that matches both strategies, with another
\* matching row further down
C5_Witness ==
    /\ sheetPc = "located"
    /\ sheetHeader.headerRow = 1
    /\ SeparateMatch(sheet[2])
    /\ CombinedMatch(sheet[2])
    /\ sheetHeader.rutCol >= 0
    /\ sheetHeader.rutDvCol = -1
    /\ \E r \in HeaderCandidates(sheet) : r > 1

\* raw ID text, name and gender text of the row are all empty
AllEmptyRow(h, row) ==
    /\ RowRutRaw(h, row) = << >>
    /\ RowFullName(h, row) = << >>
    /\ RowGenderText(h, row) = Null

\* the row would be emitted if the scan reaches it
AcceptableRow(h, row) ==
    /\ ~AllEmptyRow(h, row)
    /\ ~FailsShapeCheck(h, row)
    /\ RowFullName(h, row) # << >>
    /\ RowRutRaw(h, row) # << >>

\* 0-based indices of the rows that close a run of EmptyLimit consecutive
\* all-empty rows below the header
RunEnds(grid, h) ==
    LET empty == {q \in (h.headerRow + 1)..(Len(grid) - 1) : AllEmptyRow(h, grid[q + 1])}
    IN  {r \in empty : \A q \in (r - EmptyLimit + 1)..r : q \in empty}

SeqRange(s) == {s[i] : i \in DOMAIN s}

\* C8: extraction stops at the 25th consecutive all-empty row: no row after
\* such a run is emitted, a run of at most 24 does not stop extraction, and
\* any row with some non-empty field, also a discarded one, resets the count.
C8_StopsAtEmptyRun ==
    (sheetPc = "parsed" /\ sheetHeader.headerRow # -1) =>
        LET h    == sheetHeader
            ends == RunEnds(sheet, h)
        IN  \A k \in (h.headerRow + 1)..(Len(sheet) - 1) :
                k \in SeqRange(sheetEmitted)
                    <=> /\ AcceptableRow(h, sheet[k + 1])
                        /\ \A r \in ends : r >= k

\* 24 blank rows, a discarded row, 24 more blank rows, an emitted row, then
\* 25 blank rows and a valid row that is not emitted
C8_Witness ==
    /\ sheetPc = "parsed"
    /\ sheetHeader.headerRow = 0
    /\ Len(sheet) = 77
    /\ ~AllEmptyRow(sheetHeader, sheet[26])
    /\ sheetEmitted = <<50>>
    /\ RunEnds(sheet, sheetHeader) = {75}
    /\ AcceptableRow(sheetHeader, sheet[77])


\* the cells of a data row as text: String(v ?? "").trim()
CellText(row, c) == Trim(Str(Cell(row, c)))

DigitsOnly(s) == KeepOnly(s, Digits)

\* the check-digit cell upper-cased and reduced to [0-9K]
DvOnly(s) == KeepOnly(ToUpperCase(s), RutChars)

\* the parser found a header with separate ID and check-digit columns
SeparateStrategy ==
    /\ sheetPc = "parsed"
    /\ sheetHeader.headerRow # -1
    /\ sheetHeader.rutDvCol < 0

\* 0-based indices of the rows below the header
BelowHeader == (sheetHeader.headerRow + 1)..(Len(sheet) - 1)

\* C14: under the separate-columns strategy, a row is never emitted when its
\* ID cell reduced to digits is non-empty but is not 6 to 9 digits long, or
\* when its check-digit cell reduced to [0-9K] is non-empty but is not
\* exactly one character; in particular a row with ID cell "ABCDEF" and
\* check-digit cell "1" is discarded.
C14_ImplausibleShapeDiscarded ==
    SeparateStrategy =>
        \A k \in BelowHeader :
            LET id == CellText(sheet[k + 1], sheetHeader.rutCol)
                dv == CellText(sheet[k + 1], sheetHeader.dvCol)
            IN  /\ (DigitsOnly(id) # << >> /\ Len(DigitsOnly(id)) \notin 6..9)
                      => k \notin SeqRange(sheetEmitted)
                /\ (DvOnly(dv) # << >> /\ Len(DvOnly(dv)) # 1)
                      => k \notin SeqRange(sheetEmitted)
                /\ (id = <<"A","B","C","D","E","F">> /\ dv = <<"1">>)
                      => k \notin SeqRange(sheetEmitted)

\* a row with a five-digit ID is dropped and the valid row after it is emitted
C14_Witness ==
    /\ SeparateStrategy
    /\ sheet = <<HdrSeparate, RowShortRut, RowAna>>
    /\ sheetEmitted = <<2>>
    /\ Len(sheetRows) = 1

\* the row emitted as the i-th one
EmittedRow(i) == sheet[sheetEmitted[i] + 1]

\* both the ID cell and the check-digit cell of a row hold text
BothParts(row) ==
    /\ CellText(row, sheetHeader.rutCol) # << >>
    /\ CellText(row, sheetHeader.dvCol) # << >>

Squeezed(s) == ToUpperCase(RemoveWhiteSpace(s))

\* C19 as stated: the joined text carries the upper-cased check-digit cell
\* whole, and the combined cell is taken as its text
C19_RawIdTextAsStated ==
    (sheetPc = "parsed" /\ sheetHeader.headerRow # -1) =>
        \A i \in DOMAIN sheetEmitted :
            LET row == EmittedRow(i)
                id  == CellText(row, sheetHeader.rutCol)
                dv  == CellText(row, sheetHeader.dvCol)
            IN  sheetRows[i].rutRaw =
                   IF sheetHeader.rutDvCol >= 0
                   THEN CellText(row, sheetHeader.rutDvCol)
                   ELSE IF BothParts(row)
                        THEN Squeezed(DigitsOnly(id) \o <<"-">> \o ToUpperCase(dv))
                        ELSE Squeezed(id)

\* C19 (amended): under the separate-columns strategy, when the ID cell and
\* the check-digit cell are both non-empty the raw ID text of an emitted row
\* is digitsOnly(ID cell), '-', and the upper-cased check-digit cell reduced
\* to the characters [0-9K], and a row where either reduced part is empty is
\* not emitted; when only the ID cell is non-empty the raw ID text is the ID
\* cell as-is; under the combined-column strategy it is that cell's text; in
\* all three cases whitespace is then removed and the text upper-cased.
C19_RawIdTextReduced ==
    (sheetPc = "parsed" /\ sheetHeader.headerRow # -1) =>
        /\ \A i \in DOMAIN sheetEmitted :
               LET row == EmittedRow(i)
                   id  == CellText(row, sheetHeader.rutCol)
                   dv  == CellText(row, sheetHeader.dvCol)
               IN  sheetRows[i].rutRaw =
                      IF sheetHeader.rutDvCol >= 0
                      THEN Squeezed(CellText(row, sheetHeader.rutDvCol))
                      ELSE IF BothParts(row)
                           THEN Squeezed(DigitsOnly(id) \o <<"-">> \o DvOnly(dv))
                           ELSE Squeezed(id)
        /\ sheetHeader.rutDvCol < 0 =>
               \A k \in BelowHeader :
                   (/\ BothParts(sheet[k + 1])
                    /\ \/ DigitsOnly(CellText(sheet[k + 1], sheetHeader.rutCol)) = << >>
                       \/ DvOnly(CellText(sheet[k + 1], sheetHeader.dvCol)) = << >>)
                       => k \notin SeqRange(sheetEmitted)

\* a row with check-digit cell "-9" is emitted with raw ID text "7654321-9"
C19_Witness ==
    /\ SeparateStrategy
    /\ sheet = <<HdrSeparate, RowDashDv, RowLetters>>
    /\ sheetEmitted = <<1>>
    /\ sheetRows[1].rutRaw = <<"7","6","5","4","3","2","1","-","9">>

\* the raw ID text the reading of a row must yield for the row to be emitted
HasIdText(row) ==
    IF sheetHeader.rutDvCol >= 0
    THEN RemoveWhiteSpace(CellText(row, sheetHeader.rutDvCol)) # << >>
    ELSE /\ RemoveWhiteSpace(CellText(row, sheetHeader.rutCol)) # << >>
         /\ BothParts(row) =>
               /\ DigitsOnly(CellText(row, sheetHeader.rutCol)) # << >>
               /\ DvOnly(CellText(row, sheetHeader.dvCol)) # << >>

\* C20: every emitted row comes from a grid row strictly after the header
\* row, has a non-empty trimmed name and a non-empty raw ID text, and rows are
\* emitted in grid order; a row with no name or with no extractable raw ID
\* text is never emitted, whatever its other cells contain.
C20_EmittedRowsWellFormed ==
    sheetPc = "parsed" =>
        /\ Len(sheetRows) = Len(sheetEmitted)
        /\ sheetHeader.headerRow = -1 => sheetEmitted = << >>
        /\ \A i \in DOMAIN sheetEmitted :
               /\ sheetEmitted[i] > sheetHeader.headerRow
               /\ sheetEmitted[i] < Len(sheet)
               /\ sheetRows[i].fullName = CellText(EmittedRow(i), sheetHeader.nameCol)
               /\ sheetRows[i].fullName # << >>
               /\ sheetRows[i].rutRaw # << >>
               /\ \A j \in DOMAIN sheetEmitted : i < j => sheetEmitted[i] < sheetEmitted[j]
        /\ sheetHeader.headerRow # -1 =>
               \A k \in BelowHeader :
                   (\/ CellText(sheet[k + 1], sheetHeader.nameCol) = << >>
                    \/ ~HasIdText(sheet[k + 1]))
                       => k \notin SeqRange(sheetEmitted)

\* a nameless row with a valid ID is passed over and the row after it is
\* emitted
C20_Witness ==
    /\ sheetPc = "parsed"
    /\ sheet = <<HdrSeparate, RowNoName, RowLuis>>
    /\ sheetHeader.headerRow = 0
    /\ sheetEmitted = <<2>>
    /\ sheetRows[1].fullName = <<"L","U","I","S">>

-----------------------------------------------------------------------------
(* Claims on the import *)

ZeroStats == [totalRows |-> 0, created |-> 0, updated |-> 0, skipped |-> 0]

\* request p has finished a run on a sheet whose header was found and that
\* gave no row, right after a run on a sheet without header
ZeroRowsAfterHeaderless(p) ==
    /\ pc[p] = "done"
    /\ runs[p] >= 2
    /\ HeaderCandidates(prevRun[p].file) = {}
    /\ HeaderCandidates(file[p]) # {}
    /\ parsed[p] = << >>

\* C6: when no row satisfies either header strategy the caller observes an
\* outcome that differs from the outcome of a grid whose header was found
\* but which produced zero data rows.
C6_NotFoundDistinct ==
    \A p \in Reqs :
        ZeroRowsAfterHeaderless(p) => response[p] # prevRun[p].response

\* C6 (amended): when no row satisfies either header strategy the parser
\* returns the empty list, and the caller observes the same outcome as for a
\* grid whose header was found but which produced zero data rows: the
\* completion summary with all counts 0.
C6_NotFoundLooksLikeZeroRows ==
    \A p \in Reqs :
        ZeroRowsAfterHeaderless(p) =>
            /\ parseFenatsExcel(prevRun[p].file) = parsed[p]
            /\ response[p] = prevRun[p].response
            /\ response[p] = [kind |-> "summary",
                              message |-> <<"Importacion completada.">>,
                              stats |-> ZeroStats]

C6_Witness ==
    /\ ZeroRowsAfterHeaderless(1)
    /\ prevRun[1].file = <<RowLuis, RowAna>>
    /\ file[1] = HeaderOnlyFile
    /\ response[1].kind = "summary"

\* C7: when no row satisfies either header strategy, extraction yields zero
\* rows without raising and the import completes with totalRows = created =
\* updated = skipped = 0, with no store lookup and no write: the member
\* store is unchanged.
C7_NoHeaderNoImport ==
    \A p \in Reqs :
        (pc[p] \in {"row", "write", "done", "failed"} /\ HeaderCandidates(file[p]) = {}) =>
            /\ parsed[p] = << >>
            /\ pc[p] \in {"row", "done"}
            /\ lookups[p] = 0
            /\ writes[p] = 0
            /\ members = startMembers[p]
            /\ pc[p] = "done" =>
                  /\ response[p].kind = "summary"
                  /\ response[p].stats = ZeroStats

C7_Witness ==
    /\ pc[1] = "done"
    /\ file[1] = <<RowLuis, RowAna>>
    /\ response[1].stats = ZeroStats
    /\ members = {OldMember}
    /\ lookups[1] = 0

\* the normalized ID of row i of request p's batch
RowRut(p, i) == normalizeRut(parsed[p][i].rutRaw)

\* C9: in a run not interleaved with another writer, when two rows of the
\* batch normalize to the same ID and that ID is absent from the store at
\* the start, the first occurrence is counted created and the second
\* updated, and afterwards the store holds exactly one member for that ID.
C9_DuplicateInBatch ==
    \A p \in Reqs :
        /\ pc[p] # "failed"
        /\ \A i, j \in DOMAIN rowLog[p] :
              ( /\ i < j
                /\ RowRut(p, i) # << >>
                /\ RowRut(p, i) = RowRut(p, j)
                /\ \A m \in startMembers[p] : m.rut # RowRut(p, i)
                /\ \A k \in 1..(i - 1) : RowRut(p, k) # RowRut(p, i) )
              => /\ rowLog[p][i] = "created"
                 /\ rowLog[p][j] = "updated"
                 /\ Cardinality({m \in members : m.rut = RowRut(p, i)}) = 1

\* two rows with different raw ID texts and the same normalized ID
C9_Witness ==
    /\ pc[1] = "done"
    /\ startMembers[1] = {}
    /\ Len(parsed[1]) = 2
    /\ parsed[1][1].rutRaw # parsed[1][2].rutRaw
    /\ RowRut(1, 1) = RowRut(1, 2)
    /\ rowLog[1] = <<"created", "updated">>
    /\ Cardinality(members) = 1

\* every row of the batch has a valid ID and no two rows share one
DistinctValidIds(rows) ==
    /\ \A i \in DOMAIN rows : normalizeRut(rows[i].rutRaw) # << >>
    /\ \A i, j \in DOMAIN rows :
          i # j => normalizeRut(rows[i].rutRaw) # normalizeRut(rows[j].rutRaw)

KeysAndTokens(table) == {<<m.rut, m.token>> : m \in table}

\* request p has finished the second run of a file first imported into an
\* empty store
SecondRunOfSameFile(p) ==
    /\ pc[p] = "done"
    /\ runs[p] = 2
    /\ prevRun[p].file = file[p]
    /\ prevRun[p].startMembers = {}
    /\ DistinctValidIds(parsed[p])

\* C10: for a grid with n rows of distinct valid IDs, a first run against an
\* empty store reports created = n, updated = 0, skipped = 0 and a second
\* identical run created = 0, updated = n; after the second run the store
\* holds the same members, each with the same normalized ID and the same
\* verification token as after the first run.
C10_ReimportIdempotent ==
    \A p \in Reqs :
        SecondRunOfSameFile(p) =>
            LET n == Len(parsed[p])
            IN  /\ prevRun[p].response.stats
                      = [totalRows |-> n, created |-> n, updated |-> 0, skipped |-> 0]
                /\ response[p].stats
                      = [totalRows |-> n, created |-> 0, updated |-> n, skipped |-> 0]
                /\ KeysAndTokens(members) = KeysAndTokens(startMembers[p])
                /\ Cardinality(members) = n
                /\ Cardinality(KeysAndTokens(members)) = n

C10_Witness ==
    /\ SecondRunOfSameFile(1)
    /\ Len(parsed[1]) = 2
    /\ response[1].stats.updated = 2
    /\ Cardinality(members) = 2

\* rows of the batch of request p whose outcome is `what`
Counted(p, what) == Cardinality({i \in DOMAIN rowLog[p] : rowLog[p][i] = what})

\* 0-based indices of the rows below the header that the extractor accepts
AcceptedBelowHeader(grid) ==
    LET cand == HeaderCandidates(grid)
    IN  IF cand = {} THEN {}
        ELSE LET top == CHOOSE r \in cand : \A q \in cand : r <= q
                 h   == LocateHeader(grid)
             IN  {k \in (top + 1)..(Len(grid) - 1) : AcceptableRow(h, grid[k + 1])}

\* C12: for every import that runs to completion, each row the extractor
\* produced is counted in exactly one of created, updated, skipped, so
\* totalRows = created + updated + skipped = number of extracted rows; a row
\* is counted skipped exactly when its raw ID fails normalization, and such a
\* row causes no store write; the rows the extractor discards count toward
\* none of totalRows, created, updated, skipped.
C12_EveryRowCountedOnce ==
    \A p \in Reqs :
        pc[p] = "done" =>
            LET st == response[p].stats
            IN  /\ st.totalRows = Len(parsed[p])
                /\ st.totalRows = st.created + st.updated + st.skipped
                /\ st.totalRows = Cardinality(AcceptedBelowHeader(file[p]))
                /\ Len(rowLog[p]) = Len(parsed[p])
                /\ \A i \in DOMAIN rowLog[p] :
                      /\ rowLog[p][i] \in {"created", "updated", "skipped"}
                      /\ rowLog[p][i] = "skipped" <=> RowRut(p, i) = << >>
                /\ st.created = Counted(p, "created")
                /\ st.updated = Counted(p, "updated")
                /\ st.skipped = Counted(p, "skipped")
                /\ writes[p] = st.created + st.updated
                /\ lookups[p] = writes[p]

\* five rows below the header: two created, one skipped, two discarded by
\* the extractor
C12_Witness ==
    /\ pc[1] = "done"
    /\ file[1] = MixedFile
    /\ startMembers[1] = {}
    /\ response[1].stats = [totalRows |-> 3, created |-> 2, updated |-> 0, skipped |-> 1]
    /\ rowLog[1] = <<"created", "skipped", "created">>
    /\ Cardinality(members) = 2

\* the gender text of a row, upper-cased
GenderText(row) == ToUpperCase(Str(row.genderText))

Feminine(row) == Includes(GenderText(row), <<"F", "E", "M">>)

Masculine(row) == Includes(GenderText(row), <<"M", "A", "S">>)

\* rows of request p that were written and whose RUT no later row carries
LastWritten(p) ==
    {i \in DOMAIN rowLog[p] :
        /\ rowLog[p][i] \in {"created", "updated"}
        /\ \A j \in DOMAIN rowLog[p] : j > i => RowRut(p, j) # RowRut(p, i)}

ImportWriteStep == \E p \in Reqs : writes'[p] = writes[p] + 1

MemberIdsOf(table) == {m.id : m \in table}

\* C22: an import never changes the active / inactive status of an existing
\* member: every write of the import leaves the status of each stored member
\* as it was, and a member that is INACTIVE when the import starts is still
\* INACTIVE when it ends, even when the import contains its ID; only a member
\* the import creates receives status ACTIVE.
C22_StatusKeptByImport ==
    /\ [](\A p \in Reqs :
             pc[p] = "done" =>
                 /\ \A m \in startMembers[p] :
                       \E n \in members : n.id = m.id /\ n.status = m.status
                 /\ \A n \in members :
                       n.id \notin MemberIdsOf(startMembers[p]) => n.status = "ACTIVE")
    /\ [][ImportWriteStep =>
             /\ \A m \in members :
                   \E n \in members' : n.id = m.id /\ n.status = m.status
             /\ \A n \in members' :
                   n.id \notin MemberIdsOf(members) => n.status = "ACTIVE"]_vars

\* the inactive member was renamed by the import and stays inactive; the
\* member the import created is active
C22_Witness ==
    /\ pc[1] = "done"
    /\ startMembers[1] = {OldMember}
    /\ OldMember.status = "INACTIVE"
    /\ rowLog[1] = <<"updated", "created">>
    /\ \E n \in members :
          /\ n.id = OldMember.id
          /\ n.fullName = <<"A","N","A">>
          /\ n.status = "INACTIVE"
    /\ \E n \in members : n.id # OldMember.id /\ n.status = "ACTIVE"

\* request p is inside a run or has ended one
Started(p) == pc[p] \in {"row", "write", "done", "failed"}

\* C23: rows are reconciled strictly in extractor order, each row's lookup
\* and write completing before the next row's lookup starts: the loop moves
\* one row forward at a time, a lookup starts only when every earlier lookup
\* has had its write, and the outcomes are logged in row order. When several
\* rows of one batch normalize to the same ID, the member's stored name,
\* gender and display ID after the import are those of the last such row.
C23_RowsInOrderLastWins ==
    /\ [](\A p \in Reqs :
             Started(p) =>
                 /\ idx[p] \in 1..(Len(parsed[p]) + 1)
                 /\ pc[p] \in {"row", "write", "failed"} => Len(rowLog[p]) = idx[p] - 1
                 /\ pc[p] \in {"write", "failed"} => lookups[p] = writes[p] + 1
                 /\ pc[p] \in {"row", "done"} => lookups[p] = writes[p]
                 /\ pc[p] = "done" =>
                       /\ Len(rowLog[p]) = Len(parsed[p])
                       /\ \A i \in LastWritten(p) :
                             \E m \in members :
                                 /\ m.rut = RowRut(p, i)
                                 /\ m.fullName = parsed[p][i].fullName
                                 /\ m.gender = genderMap(parsed[p][i].genderText)
                                 /\ m.rutMasked = formatRut(RowRut(p, i)))
    /\ [][\A p \in Reqs :
             runs'[p] = runs[p] =>
                 /\ idx'[p] \in {idx[p], idx[p] + 1}
                 /\ lookups'[p] # lookups[p] =>
                       /\ lookups[p] = writes[p]
                       /\ lookups'[p] = lookups[p] + 1
                       /\ idx'[p] = idx[p]
                 /\ writes'[p] # writes[p] =>
                       /\ writes'[p] = lookups[p]
                       /\ idx'[p] = idx[p] + 1]_vars

\* two rows for the ID of ANA: the member carries the name and gender of the
\* second one
C23_Witness ==
    /\ pc[1] = "done"
    /\ startMembers[1] = {}
    /\ file[1] = <<HdrSeparate, RowAna, RowAnaDots>>
    /\ rowLog[1] = <<"created", "updated">>
    /\ members # {}
    /\ \A m \in members :
          /\ m.rut = <<"1","2","3","4","5","6","7","-","K">>
          /\ m.fullName = <<"A","N","A"," ","B">>
          /\ m.gender = "MALE"
          /\ m.rutMasked = <<"1",".","2","3","4",".","5","6","7","-","K">>

-----------------------------------------------------------------------------
(* Claims on the panel: member actions, failures, login, roles, member login *)

\* the last panel request was a token regeneration that took effect
RegenStep ==
    /\ ops' = ops + 1
    /\ panel'.op = "members/regen-token"
    /\ panel'.kind = "redirectMembers"

\* C11: across any sequence of imports, manual entries, status toggles and
\* token regenerations, an existing member's normalized ID never changes and
\* its verification token changes only in an explicit regenerate step: an
\* import update and a manual-entry update of an existing member leave both
\* ID and token untouched.
C11_IdAndTokenStable ==
    [][\A m \in members :
          \E n \in members' :
              /\ n.id = m.id
              /\ n.rut = m.rut
              /\ (n.token # m.token => RegenStep)]_vars

\* the member entered before the session got a new token, then an import
\* update, then a manual-entry update
C11_Witness ==
    /\ updated[1] >= 1
    /\ ops = 2
    /\ panel.op = "new"
    /\ panel.kind = "saved"
    /\ \E m \in members :
          /\ m.id = OldMember.id
          /\ m.rut = OldMember.rut
          /\ m.token = 2
          /\ m.fullName = <<"E","V","A">>
          /\ m.lastImportAt >= 2

\* the store holds a member with the RUT of the row request p is about to
\* create, or none with the RUT of the row it is about to update
StoreRejects(p) ==
    /\ pc[p] = "write"
    /\ exists[p] # (\E m \in members : m.rut = CurrentRut(p))

\* request p stopped at row idx[p]: the rows before it are counted and
\* committed, the row itself and the rows after it are not
AbortedAtRow(p) ==
    /\ idx[p] \in DOMAIN parsed[p]
    /\ Len(rowLog[p]) = idx[p] - 1
    /\ created[p] + updated[p] + skipped[p] = idx[p] - 1
    /\ writes[p] = created[p] + updated[p]
    /\ lookups[p] = writes[p] + 1
    /\ \A i \in DOMAIN rowLog[p] :
          rowLog[p][i] \in {"created", "updated"} =>
              \E m \in members : m.rut = RowRut(p, i)
    /\ response[p].kind \in UncaughtOutcomes
    /\ response[p].kind # "summary"

C15_SessionNeedsOtp ==
    (panel.op = "login" /\ panel.kind = "redirectAdmin") =>
        /\ sessionUser # 0
        /\ loginSteps = <<"password", "otp">>

\* C16: a step changes the member table only for a session whose role is
\* ADMIN or SUPERADMIN (import, manual entry, status toggle, token
\* regeneration), and changes the admin users only for a SUPERADMIN session
\* (create, activate/deactivate, password reset); with no session or with
\* role VIEWER no step changes the store.
C16_RoleGating ==
    [][/\ members' # members => role \in {"ADMIN", "SUPERADMIN"}
       /\ adminUsers' # adminUsers => role = "SUPERADMIN"
       /\ role \in {"NONE", "VIEWER"} =>
             /\ members' = members
             /\ adminUsers' = adminUsers
             /\ nextId' = nextId
             /\ nextToken' = nextToken]_vars

\* an ADMIN session whose import created a member is refused the
\* deactivation of an admin user
C16_Witness ==
    /\ role = "ADMIN"
    /\ created[1] >= 1
    /\ members # startMembers[1]
    /\ panel.op = "users/toggle"
    /\ panel.kind = "forbidden"
    /\ adminUsers = InitialAdminUsers

\* the step is a member lookup (POST /login-member)
MemberLookupStep ==
    /\ ops' = ops + 1
    /\ panel'.op = "login-member"

\* C17: the normalizer of member lookup returns what the normalizer of
\* import, manual entry and admin search returns, so a lookup with raw input
\* Y finds a member exactly when the table holds one stored under
\* normalizeRut(Y), however the ID was written when it was stored.
C17_OneNormalizer ==
    [][MemberLookupStep =>
          LET y == panel'.input
          IN  /\ normalizeRutMember(y) = normalizeRut(y)
              /\ panel'.kind = "redirectCredential" <=>
                    /\ normalizeRut(y) # << >>
                    /\ \E m \in members : m.rut = normalizeRut(y)
              /\ panel'.kind = "notFound" <=>
                    /\ normalizeRut(y) # << >>
                    /\ ~\E m \in members : m.rut = normalizeRut(y)]_vars

\* the member the import stored from the cells "1234567" and "k" is found
\* with the input " 01.234.567K "
C17_Witness ==
    /\ created[1] >= 1
    /\ \E m \in members \ startMembers[1] :
          m.rut = <<"1","2","3","4","5","6","7","-","K">>
    /\ panel.op = "login-member"
    /\ panel.input = <<"0","1",".","2","3","4",".","5","6","7","K">>
    /\ panel.kind = "redirectCredential"

\* the display form of a canonical ID: dots every three digits from the right
DisplayForm(n) ==
    GroupedFromRight(SubSeq(n, 1, Len(n) - 2)) \o SubSeq(n, Len(n) - 1, Len(n))

\* the normalized ID of the text last typed into the member login
TypedId == normalizeRut(panel.input)

\* C24: in every state reached through imports, manual entries, status
\* toggles and token regenerations, each member's stored display ID is the
\* formatted form of its key: displayId = format(normalizedId) and
\* normalize(displayId) = normalizedId; and normalize(format(n)) = n for the
\* normalized IDs of the table and of the text typed into the member login.
C24_DisplayIdFollowsKey ==
    /\ \A m \in members :
          /\ m.rutMasked = formatRut(m.rut)
          /\ IsCanonicalId(m.rut) => m.rutMasked = DisplayForm(m.rut)
          /\ normalizeRut(m.rutMasked) = m.rut
    /\ TypedId # << >> => normalizeRut(formatRut(TypedId)) = TypedId

\* after an import and a manual entry the table holds a member stored from
\* the cells "7654321" / "9" and one typed as "1.234.567-k"
C24_Witness ==
    /\ ops >= 1
    /\ panel.op = "new"
    /\ panel.kind = "saved"
    /\ created[1] + updated[1] >= 1
    /\ \E m \in members :
          /\ m.rut = <<"7","6","5","4","3","2","1","-","9">>
          /\ m.rutMasked = <<"7",".","6","5","4",".","3","2","1","-","9">>
    /\ \E m \in members :
          /\ m.rut = <<"1","2","3","4","5","6","7","-","K">>
          /\ m.rutMasked = <<"1",".","2","3","4",".","5","6","7","-","K">>
          /\ m.fullName = <<"E","V","A">>

-----------------------------------------------------------------------------
(* Claims on concurrent imports *)

\* request p found no member for its current row and the table now holds one
CreateCollides(p) ==
    /\ pc[p] = "write"
    /\ ~exists[p]
    /\ \E m \in members : m.rut = CurrentRut(p)

\* C21: no lock surrounds the lookup-then-write of a row. Whenever a request
\* whose lookup returned none reaches its create after another import has
\* stored the same ID, the create is rejected by the unique index on rut:
\* the table keeps one member per ID, untouched by the step, and that import
\* aborts with a store failure, the row counted neither created nor updated.
C21_UnlockedCreateCollides ==
    /\ [](\A m, n \in members : m.rut = n.rut => m = n)
    /\ [][\A p \in Reqs :
             (CreateCollides(p) /\ pc'[p] # pc[p]) =>
                 /\ pc'[p] = "failed"
                 /\ response'[p].kind \in UncaughtOutcomes
                 /\ members' = members
                 /\ created'[p] = created[p]
                 /\ updated'[p] = updated[p]
                 /\ rowLog'[p] = rowLog[p]]_vars

\* both lookups for LUIS returned none on an empty table; request 1 created
\* the member and went on, request 2 was rejected at its first row
C21_Witness ==
    /\ file[1] = <<HdrSeparate, RowLuis, RowAnaDots>>
    /\ file[2] = <<HdrSeparate, RowLuis, RowAnaDots>>
    /\ startMembers[1] = {}
    /\ startMembers[2] = {}
    /\ rowLog[1] = <<"created", "created">>
    /\ pc[1] = "done"
    /\ pc[2] = "failed"
    /\ idx[2] = 1
    /\ ~exists[2]
    /\ lookups[2] = 1
    /\ writes[2] = 0
    /\ rowLog[2] = << >>
    /\ Cardinality(members) = 2

====
